---- MODULE Spec2Model ----
(***************************************************************************)
(* Model of the note-taking backend: the User and Note documents, the      *)
(* OTP methods of the User model, the auth controller handlers, the notes  *)
(* controller handlers and the store's TTL index on otp.expiresAt.         *)
(*                                                                         *)
(* Time is in milliseconds (Date.now()).  The store keeps at most one user *)
(* document per lower-cased email (unique index), so the users collection  *)
(* is a function from emails to documents.                                 *)
(***************************************************************************)
EXTENDS Integers, Sequences, FiniteSets, TLC

VARIABLES users, nextId, nextGen, now, advances, last, otpWins, otpReplays,
          oldCodes, reqs, notes, nextNote, issued, cookies, loggedOut,
          presented, attempts, passed

vars == <<users, nextId, nextGen, now, advances, last, otpWins, otpReplays,
          oldCodes, reqs, notes, nextNote, issued, cookies, loggedOut,
          presented, attempts, passed>>

authVars == <<users, nextId, nextGen, now, advances, last, otpWins,
              otpReplays, oldCodes>>

\* the token pairs the server has issued, the session cookies of the
\* browser, the issued tokens whose session was logged out, and the token
\* presented by the request last served
sessVars == <<issued, cookies, loggedOut, presented>>

\* the Map of the in-memory limiter authRateLimit, and the history of the
\* requests it passed on: their keys and times
limiterVars == <<attempts, passed>>

(***************************************************************************)
(* Bounds of the model.                                                    *)
(***************************************************************************)
MaxUsers == 2
MaxOtps == 3
MaxAttempts == 2
MaxAdvances == 2
MaxNotes == 2
MaxConcOtps == 2

(***************************************************************************)
(* Program constants.                                                      *)
(***************************************************************************)
thirtySecondsInMs == 30000
expiryMinutes == 10
MsPerMinute == 60000
MsPerSecond == 1000

(***************************************************************************)
(* Input domains.                                                          *)
(***************************************************************************)
Emails == {"a@x.com", "b@x.com"}
InputEmails == {"a@x.com", "A@x.com"}
Codes == {"111111", "222222"}
GoogleIds == {"g1", "g2"}
GoogleTokens == [id : GoogleIds, email : {"A@x.com"}, verified_email : BOOLEAN]
ClockSteps == {15000, 600000}
Slots == {1, 2}

NoUser == [id |-> 0]
NoToken == [kind |-> "none"]
NoCookies == [accessToken |-> NoToken, refreshToken |-> NoToken]
NoEntry == [count |-> 0]
Keys == {"1.1.1.1:a@x.com", "1.1.1.1:b@x.com"}
NullCode == "null"
NullDate == 0 - 1
NullId == "null"
None == "none"

\* String.prototype.toLowerCase on the addresses of the input domain
toLowerCase(e) == IF e = "A@x.com" THEN "a@x.com" ELSE e

\* Math.ceil(ms / 1000) for ms >= 0
CeilSeconds(ms) == (ms + MsPerSecond - 1) \div MsPerSecond

(***************************************************************************)
(* User model: schema defaults and the OTP instance methods.  The field    *)
(* gen is a history field: the serial number of the generateOTP call that  *)
(* wrote the stored code (0 when there is none).                           *)
(***************************************************************************)
DefaultOtp ==
  [code |-> NullCode, expiresAt |-> NullDate, isUsed |-> FALSE,
   attempts |-> 0, lastAttemptAt |-> NullDate, gen |-> 0]

NewUser(id, provider, verified, gid, login) ==
  [id |-> id, isEmailVerified |-> verified, authProvider |-> provider,
   googleId |-> gid, otp |-> DefaultOtp, lastLoginAt |-> login]

generateOTP(u, code, gen, t) ==
  [u EXCEPT !.otp = [code |-> code,
                     expiresAt |-> t + expiryMinutes * MsPerMinute,
                     isUsed |-> FALSE, attempts |-> 0,
                     lastAttemptAt |-> t, gen |-> gen]]

isOTPExpiredInverted(u, t) ==
  IF u.otp.expiresAt = NullDate THEN TRUE ELSE t < u.otp.expiresAt

isOTPExpired(u, t) ==
  IF u.otp.expiresAt = NullDate THEN TRUE ELSE t > u.otp.expiresAt

isOTPUsedOrTried(u) == u.otp.isUsed \/ u.otp.attempts > 1

isOTPUsed(u) == u.otp.isUsed

User_verifyOTPAnyCode(u, code, t) ==
  IF u.otp.code = NullCode THEN FALSE
  ELSE IF isOTPExpired(u, t) THEN FALSE
  ELSE IF isOTPUsed(u) THEN FALSE
  ELSE TRUE

User_verifyOTP(u, code, t) ==
  IF u.otp.code = NullCode THEN FALSE
  ELSE IF isOTPExpired(u, t) THEN FALSE
  ELSE IF isOTPUsed(u) THEN FALSE
  ELSE u.otp.code = code

markOTPAsUsed(u) == [u EXCEPT !.otp.isUsed = TRUE]

incrementOTPAttempts(u, t) ==
  [u EXCEPT !.otp.attempts = @ + 1, !.otp.lastAttemptAt = t]

clearOTPKeepsCode(u) == u

clearOTP(u) == [u EXCEPT !.otp = DefaultOtp]

(***************************************************************************)
(* Error classes (middleware/errorHandler.ts) and the response the central *)
(* handler sends for them: status, errorCode and details.                  *)
(***************************************************************************)
AppError(status, errorCode) ==
  [status |-> status, errorCode |-> errorCode, details |-> None]
ValidationError(details) ==
  [status |-> 400, errorCode |-> "VALIDATION_ERROR", details |-> details]
AuthenticationError(errorCode) == AppError(401, errorCode)
NotFoundError(errorCode) == AppError(404, errorCode)
ConflictError(errorCode) == AppError(409, errorCode)
Success(status) == [status |-> status, errorCode |-> None, details |-> None]

\* the domain failure a response names: its errorCode, or for a
\* ValidationError the code carried in details
Failure(resp) ==
  IF resp.errorCode = "VALIDATION_ERROR" THEN resp.details ELSE resp.errorCode

(***************************************************************************)
(* Document.save(): only the paths the handler modified are written, and   *)
(* the update is addressed by _id, so it finds nothing when the document   *)
(* was removed (or replaced by a new record) since it was loaded.          *)
(***************************************************************************)
OtpAttemptPaths == {"otp.attempts", "otp.lastAttemptAt"}
OtpPaths == {"otp.code", "otp.expiresAt", "otp.isUsed"} \cup OtpAttemptPaths

MergeFirstWriteWins(stored, doc, mod) ==
  IF /\ "otp.code" \in mod
     /\ stored.otp.code # NullCode
     /\ doc.otp.code # NullCode
  THEN stored
  ELSE
    [id |-> stored.id,
     authProvider |-> stored.authProvider,
     isEmailVerified |-> IF "isEmailVerified" \in mod THEN doc.isEmailVerified
                         ELSE stored.isEmailVerified,
     googleId |-> IF "googleId" \in mod THEN doc.googleId ELSE stored.googleId,
     lastLoginAt |-> IF "lastLoginAt" \in mod THEN doc.lastLoginAt
                     ELSE stored.lastLoginAt,
     otp |-> [code |-> IF "otp.code" \in mod THEN doc.otp.code
                       ELSE stored.otp.code,
              gen |-> IF "otp.code" \in mod THEN doc.otp.gen
                      ELSE stored.otp.gen,
              expiresAt |-> IF "otp.expiresAt" \in mod THEN doc.otp.expiresAt
                            ELSE stored.otp.expiresAt,
              isUsed |-> IF "otp.isUsed" \in mod THEN doc.otp.isUsed
                         ELSE stored.otp.isUsed,
              attempts |-> IF "otp.attempts" \in mod THEN doc.otp.attempts
                           ELSE stored.otp.attempts,
              lastAttemptAt |-> IF "otp.lastAttemptAt" \in mod
                                THEN doc.otp.lastAttemptAt
                                ELSE stored.otp.lastAttemptAt]]

Merge(stored, doc, mod) ==
  [id |-> stored.id,
   authProvider |-> stored.authProvider,
   isEmailVerified |-> IF "isEmailVerified" \in mod THEN doc.isEmailVerified
                       ELSE stored.isEmailVerified,
   googleId |-> IF "googleId" \in mod THEN doc.googleId ELSE stored.googleId,
   lastLoginAt |-> IF "lastLoginAt" \in mod THEN doc.lastLoginAt
                   ELSE stored.lastLoginAt,
   otp |-> [code |-> IF "otp.code" \in mod THEN doc.otp.code
                     ELSE stored.otp.code,
            gen |-> IF "otp.code" \in mod THEN doc.otp.gen
                    ELSE stored.otp.gen,
            expiresAt |-> IF "otp.expiresAt" \in mod THEN doc.otp.expiresAt
                          ELSE stored.otp.expiresAt,
            isUsed |-> IF "otp.isUsed" \in mod THEN doc.otp.isUsed
                       ELSE stored.otp.isUsed,
            attempts |-> IF "otp.attempts" \in mod THEN doc.otp.attempts
                         ELSE stored.otp.attempts,
            lastAttemptAt |-> IF "otp.lastAttemptAt" \in mod
                              THEN doc.otp.lastAttemptAt
                              ELSE stored.otp.lastAttemptAt]]

SaveFinds(store, e, doc) == store[e] # NoUser /\ store[e].id = doc.id

(***************************************************************************)
(* Outcome of a handler run on the document u it loaded at time t: the     *)
(* response, the document as the handler left it, the modified paths it    *)
(* saves, whether a token pair is issued (setAuthCookies), the seconds in  *)
(* the rate-limit message and whether generateOTP ran.                     *)
(***************************************************************************)
Reject(resp, u) ==
  [resp |-> resp, doc |-> u, mod |-> {}, tokens |-> FALSE, wait |-> 0,
   generated |-> FALSE]

verifyOTPResultKeepsFlag(u, otp, t) ==
  IF u = NoUser THEN Reject(NotFoundError("USER_NOT_FOUND"), u)
  ELSE IF u.isEmailVerified
    THEN Reject(ValidationError("EMAIL_ALREADY_VERIFIED"), u)
  ELSE LET u1 == incrementOTPAttempts(u, t) IN
    IF isOTPExpired(u1, t)
      THEN [Reject(ValidationError("OTP_EXPIRED"), u1)
              EXCEPT !.mod = OtpAttemptPaths]
    ELSE IF isOTPUsed(u1)
      THEN [Reject(ValidationError("OTP_ALREADY_USED"), u1)
              EXCEPT !.mod = OtpAttemptPaths]
    ELSE IF ~User_verifyOTP(u1, otp, t)
      THEN [Reject(ValidationError("INVALID_OTP"), u1)
              EXCEPT !.mod = OtpAttemptPaths]
    ELSE [resp |-> Success(200),
          doc |-> clearOTP([markOTPAsUsed(u1) EXCEPT !.lastLoginAt = t]),
          mod |-> OtpPaths \cup {"lastLoginAt"},
          tokens |-> TRUE, wait |-> 0, generated |-> FALSE]

\* controllers/authController.ts verifyOTP, after findOne
verifyOTPResult(u, otp, t) ==
  IF u = NoUser THEN Reject(NotFoundError("USER_NOT_FOUND"), u)
  ELSE IF u.isEmailVerified
    THEN Reject(ValidationError("EMAIL_ALREADY_VERIFIED"), u)
  ELSE LET u1 == incrementOTPAttempts(u, t) IN
    IF isOTPExpired(u1, t)
      THEN [Reject(ValidationError("OTP_EXPIRED"), u1)
              EXCEPT !.mod = OtpAttemptPaths]
    ELSE IF isOTPUsed(u1)
      THEN [Reject(ValidationError("OTP_ALREADY_USED"), u1)
              EXCEPT !.mod = OtpAttemptPaths]
    ELSE IF ~User_verifyOTP(u1, otp, t)
      THEN [Reject(ValidationError("INVALID_OTP"), u1)
              EXCEPT !.mod = OtpAttemptPaths]
    ELSE [resp |-> Success(200),
          doc |-> clearOTP([markOTPAsUsed(u1) EXCEPT
                              !.isEmailVerified = TRUE, !.lastLoginAt = t]),
          mod |-> OtpPaths \cup {"isEmailVerified", "lastLoginAt"},
          tokens |-> TRUE, wait |-> 0, generated |-> FALSE]

\* controllers/authController.ts verifySigninOTP, after findOne
verifySigninOTPResult(u, otp, t) ==
  IF u = NoUser THEN Reject(NotFoundError("USER_NOT_FOUND"), u)
  ELSE IF ~u.isEmailVerified
    THEN Reject(AuthenticationError("EMAIL_NOT_VERIFIED"), u)
  ELSE LET u1 == incrementOTPAttempts(u, t) IN
    IF isOTPExpired(u1, t)
      THEN [Reject(ValidationError("OTP_EXPIRED"), u1)
              EXCEPT !.mod = OtpAttemptPaths]
    ELSE IF isOTPUsed(u1)
      THEN [Reject(ValidationError("OTP_ALREADY_USED"), u1)
              EXCEPT !.mod = OtpAttemptPaths]
    ELSE IF ~User_verifyOTP(u1, otp, t)
      THEN [Reject(ValidationError("INVALID_OTP"), u1)
              EXCEPT !.mod = OtpAttemptPaths]
    ELSE [resp |-> Success(200),
          doc |-> clearOTP([markOTPAsUsed(u1) EXCEPT !.lastLoginAt = t]),
          mod |-> OtpPaths \cup {"lastLoginAt"},
          tokens |-> TRUE, wait |-> 0, generated |-> FALSE]

\* the reply after generateOTP, save and sendOTPEmail
OtpSent(u, code, gen, ok, t) ==
  [resp |-> IF ok THEN Success(200) ELSE AppError(500, "EMAIL_SEND_FAILED"),
   doc |-> generateOTP(u, code, gen, t), mod |-> OtpPaths,
   tokens |-> FALSE, wait |-> 0, generated |-> TRUE]

RateLimited(u, t) ==
  [Reject(ValidationError("OTP_RATE_LIMITED"), u) EXCEPT
     !.wait = CeilSeconds(thirtySecondsInMs - (t - u.otp.lastAttemptAt))]

signinNoCooldown(u, code, gen, ok, t) ==
  IF u = NoUser THEN Reject(NotFoundError("USER_NOT_FOUND"), u)
  ELSE IF u.authProvider = "google"
    THEN Reject(AuthenticationError("USE_GOOGLE_LOGIN"), u)
  ELSE IF ~u.isEmailVerified
    THEN Reject(AuthenticationError("EMAIL_NOT_VERIFIED"), u)
  ELSE OtpSent(u, code, gen, ok, t)

\* controllers/authController.ts signin, after findOne
signinResult(u, code, gen, ok, t) ==
  IF u = NoUser THEN Reject(NotFoundError("USER_NOT_FOUND"), u)
  ELSE IF u.authProvider = "google"
    THEN Reject(AuthenticationError("USE_GOOGLE_LOGIN"), u)
  ELSE IF ~u.isEmailVerified
    THEN Reject(AuthenticationError("EMAIL_NOT_VERIFIED"), u)
  ELSE IF u.otp.lastAttemptAt # NullDate
          /\ t - u.otp.lastAttemptAt < thirtySecondsInMs
    THEN RateLimited(u, t)
  ELSE OtpSent(u, code, gen, ok, t)

resendOTPNoProviderCheck(u, code, gen, ok, t) ==
  IF u = NoUser THEN Reject(NotFoundError("USER_NOT_FOUND"), u)
  ELSE IF u.otp.lastAttemptAt # NullDate
          /\ t - u.otp.lastAttemptAt < thirtySecondsInMs
    THEN RateLimited(u, t)
  ELSE OtpSent(u, code, gen, ok, t)

\* controllers/authController.ts resendOTP, after findOne
resendOTPResult(u, code, gen, ok, t) ==
  IF u = NoUser THEN Reject(NotFoundError("USER_NOT_FOUND"), u)
  ELSE IF u.authProvider = "google"
    THEN Reject(ValidationError("NO_OTP_NEEDED"), u)
  ELSE IF u.otp.lastAttemptAt # NullDate
          /\ t - u.otp.lastAttemptAt < thirtySecondsInMs
    THEN RateLimited(u, t)
  ELSE OtpSent(u, code, gen, ok, t)

\* controllers/authController.ts googleLogin, after verifyIdToken and findOne
googleLoginResult(u, g, t) ==
  IF u = NoUser THEN Reject(NotFoundError("USER_NOT_FOUND"), u)
  ELSE IF u.authProvider = "email"
    THEN Reject(AuthenticationError("USE_EMAIL_LOGIN"), u)
  ELSE IF u.authProvider = "google" /\ u.googleId # g.id
    THEN Reject(AuthenticationError("DIFFERENT_GOOGLE_ACCOUNT"), u)
  ELSE [resp |-> Success(200),
        doc |-> [u EXCEPT
                   !.googleId = IF u.authProvider = "google" /\ @ = NullId
                                THEN g.id ELSE @,
                   !.isEmailVerified = g.verified_email,
                   !.lastLoginAt = t],
        mod |-> {"googleId", "isEmailVerified", "lastLoginAt"},
        tokens |-> TRUE, wait |-> 0, generated |-> FALSE]

(***************************************************************************)
(* What a finished request leaves behind: the saved document, the reply    *)
(* (kept in last, with the request's inputs) and the history variables.    *)
(*   otpWins    generations whose code a verification succeeded with       *)
(*   otpReplays generations whose code succeeded more than once            *)
(*   oldCodes   per email: codes of the current record that a later        *)
(*              generateOTP has overwritten                                *)
(***************************************************************************)
VerifyOps == {"verify-otp", "verify-signin-otp"}

Reply(op, e, otp, resp, tokens, wait) ==
  [op |-> op, email |-> e, otp |-> otp, resp |-> resp, tokens |-> tokens,
   wait |-> wait]

Commit(op, e, otp, loaded, r) ==
  LET found == r.mod = {} \/ SaveFinds(users, e, loaded)
      wrote == found /\ r.mod # {}
      tokens == found /\ r.tokens
      won == tokens /\ op \in VerifyOps
  IN
  /\ r.generated => nextGen <= MaxOtps
  /\ wrote => r.doc.otp.attempts <= MaxAttempts
  /\ users' = IF wrote THEN [users EXCEPT ![e] = Merge(@, r.doc, r.mod)]
              ELSE users
  /\ last' = Reply(op, e, otp,
                   IF found THEN r.resp ELSE AppError(500, "INTERNAL_ERROR"),
                   tokens, IF found THEN r.wait ELSE 0)
  /\ nextGen' = IF r.generated THEN nextGen + 1 ELSE nextGen
  /\ oldCodes' = IF wrote /\ r.generated
                 THEN [oldCodes EXCEPT ![e] = @ \cup ({users[e].otp.code}
                                                       \ {NullCode})]
                 ELSE oldCodes
  /\ otpWins' = IF won THEN otpWins \cup {loaded.otp.gen} ELSE otpWins
  /\ otpReplays' = IF won /\ loaded.otp.gen \in otpWins
                   THEN otpReplays \cup {loaded.otp.gen} ELSE otpReplays

Idle == [op |-> None]
NoNote == [userId |-> 0]

(***************************************************************************)
(* Requests processed one after another: every action is a whole handler.  *)
(***************************************************************************)
signupOverwrites(email, code, ok) ==
  LET e == toLowerCase(email)
      existingUser == users[e]
      user == generateOTP(NewUser(nextId, "email", FALSE, NullId, NullDate),
                          code, nextGen, now)
  IN
  IF existingUser # NoUser /\ existingUser.isEmailVerified
  THEN /\ last' = Reply("signup", e, NullCode,
                        ConflictError("USER_ALREADY_VERIFIED"), FALSE, 0)
       /\ UNCHANGED <<users, nextId, nextGen, oldCodes>>
  ELSE /\ nextId <= MaxUsers
       /\ nextGen <= MaxOtps
       /\ nextId' = nextId + 1
       /\ nextGen' = nextGen + 1
       /\ IF ok
          THEN /\ users' = [users EXCEPT ![e] = user]
               /\ oldCodes' = [oldCodes EXCEPT ![e] = {}]
               /\ last' = Reply("signup", e, NullCode, Success(201), FALSE, 0)
          ELSE /\ UNCHANGED <<users, oldCodes>>
               /\ last' = Reply("signup", e, NullCode,
                        AppError(500, "EMAIL_SEND_FAILED"), FALSE, 0)

signupKeepsRecord(email, code, ok) ==
  LET e == toLowerCase(email)
      existingUser == users[e]
      user == generateOTP(NewUser(nextId, "email", FALSE, NullId, NullDate),
                          code, nextGen, now)
  IN
  IF existingUser # NoUser
  THEN /\ last' = Reply("signup", e, NullCode,
                        IF existingUser.isEmailVerified
                        THEN ConflictError("USER_ALREADY_VERIFIED")
                        ELSE ConflictError("USER_EXISTS_UNVERIFIED"),
                        FALSE, 0)
       /\ UNCHANGED <<users, nextId, nextGen, oldCodes>>
  ELSE /\ nextId <= MaxUsers
       /\ nextGen <= MaxOtps
       /\ nextId' = nextId + 1
       /\ nextGen' = nextGen + 1
       /\ users' = [users EXCEPT ![e] = user]
       /\ oldCodes' = [oldCodes EXCEPT ![e] = {}]
       /\ last' = Reply("signup", e, NullCode,
                        IF ok THEN Success(201)
                        ELSE AppError(500, "EMAIL_SEND_FAILED"), FALSE, 0)

\* POST /auth/signup
signup(email, code, ok) ==
  LET e == toLowerCase(email)
      existingUser == users[e]
      user == generateOTP(NewUser(nextId, "email", FALSE, NullId, NullDate),
                          code, nextGen, now)
  IN
  IF existingUser # NoUser
  THEN /\ last' = Reply("signup", e, NullCode,
                        IF existingUser.isEmailVerified
                        THEN ConflictError("USER_ALREADY_VERIFIED")
                        ELSE ConflictError("USER_EXISTS_UNVERIFIED"),
                        FALSE, 0)
       /\ UNCHANGED <<users, nextId, nextGen, oldCodes>>
  ELSE /\ nextId <= MaxUsers
       /\ nextGen <= MaxOtps
       /\ nextId' = nextId + 1
       /\ nextGen' = nextGen + 1
       /\ IF ok
          THEN /\ users' = [users EXCEPT ![e] = user]
               /\ oldCodes' = [oldCodes EXCEPT ![e] = {}]
               /\ last' = Reply("signup", e, NullCode, Success(201), FALSE, 0)
          ELSE \* the record is saved, the email fails, the record is deleted
               /\ UNCHANGED <<users, oldCodes>>
               /\ last' = Reply("signup", e, NullCode,
                        AppError(500, "EMAIL_SEND_FAILED"), FALSE, 0)

googleSignupSharedId(g) ==
  LET e == toLowerCase(g.email)
      existingUser == users[e]
      user == NewUser(nextId, "google", g.verified_email, g.id, now)
  IN
  IF existingUser # NoUser
  THEN /\ last' = Reply("google-signup", e, NullCode,
                        IF existingUser.authProvider = "email"
                        THEN ConflictError("USER_EXISTS_WITH_EMAIL_AUTH")
                        ELSE ConflictError("USER_ALREADY_EXISTS_GOOGLE"),
                        FALSE, 0)
       /\ UNCHANGED <<users, nextId, oldCodes>>
  ELSE /\ nextId <= MaxUsers
       /\ nextId' = nextId + 1
       /\ users' = [users EXCEPT ![e] = user]
       /\ oldCodes' = [oldCodes EXCEPT ![e] = {}]
       /\ last' = Reply("google-signup", e, NullCode, Success(201), TRUE, 0)

\* POST /auth/google-signup with a token verifyIdToken accepts
googleSignup(g) ==
  LET e == toLowerCase(g.email)
      existingUser == users[e]
      user == NewUser(nextId, "google", g.verified_email, g.id, now)
  IN
  IF existingUser # NoUser
  THEN /\ last' = Reply("google-signup", e, NullCode,
                        IF existingUser.authProvider = "email"
                        THEN ConflictError("USER_EXISTS_WITH_EMAIL_AUTH")
                        ELSE ConflictError("USER_ALREADY_EXISTS_GOOGLE"),
                        FALSE, 0)
       /\ UNCHANGED <<users, nextId, oldCodes>>
  ELSE IF \E x \in Emails : users[x] # NoUser /\ users[x].googleId = g.id
  THEN /\ last' = Reply("google-signup", e, NullCode,
                        ConflictError("GOOGLE_ID_ALREADY_EXISTS"), FALSE, 0)
       /\ UNCHANGED <<users, nextId, oldCodes>>
  ELSE /\ nextId <= MaxUsers
       /\ nextId' = nextId + 1
       /\ users' = [users EXCEPT ![e] = user]
       /\ oldCodes' = [oldCodes EXCEPT ![e] = {}]
       /\ last' = Reply("google-signup", e, NullCode, Success(201), TRUE, 0)

\* POST /auth/verify-otp
verifyOTP(email, otp) ==
  LET e == toLowerCase(email) IN
  /\ Commit("verify-otp", e, otp, users[e], verifyOTPResult(users[e], otp, now))
  /\ UNCHANGED nextId

\* POST /auth/signin
signin(email, code, ok) ==
  LET e == toLowerCase(email) IN
  /\ Commit("signin", e, NullCode, users[e],
            signinResult(users[e], code, nextGen, ok, now))
  /\ UNCHANGED nextId

\* POST /auth/verify-signin-otp
verifySigninOTP(email, otp) ==
  LET e == toLowerCase(email) IN
  /\ Commit("verify-signin-otp", e, otp, users[e],
            verifySigninOTPResult(users[e], otp, now))
  /\ UNCHANGED nextId

\* POST /auth/google-login with a token verifyIdToken accepts
googleLogin(g) ==
  LET e == toLowerCase(g.email) IN
  /\ Commit("google-login", e, NullCode, users[e],
            googleLoginResult(users[e], g, now))
  /\ UNCHANGED nextId

\* POST /auth/resend-otp
resendOTP(email, code, ok) ==
  LET e == toLowerCase(email) IN
  /\ Commit("resend-otp", e, NullCode, users[e],
            resendOTPResult(users[e], code, nextGen, ok, now))
  /\ UNCHANGED nextId

\* the store's TTL index on otp.expiresAt (expireAfterSeconds: 0): the TTL
\* monitor deletes a document whose indexed date has passed
TTLExpire(e) ==
  /\ users[e] # NoUser
  /\ users[e].otp.expiresAt # NullDate
  /\ now > users[e].otp.expiresAt
  /\ users' = [users EXCEPT ![e] = NoUser]
  /\ UNCHANGED <<nextId, nextGen, now, advances, last, otpWins, otpReplays,
                 oldCodes, reqs, notes, nextNote, sessVars,
                 limiterVars>>

\* time passes
Advance(d) ==
  /\ advances < MaxAdvances
  /\ advances' = advances + 1
  /\ now' = now + d
  /\ UNCHANGED <<users, nextId, nextGen, last, otpWins, otpReplays, oldCodes,
                 reqs, notes, nextNote, sessVars,
                 limiterVars>>

InitAuth ==
  /\ users = [e \in Emails |-> NoUser]
  /\ nextId = 1
  /\ nextGen = 1
  /\ now = 0
  /\ advances = 0
  /\ last = Reply(None, None, NullCode, Success(0), FALSE, 0)
  /\ otpWins = {}
  /\ otpReplays = {}
  /\ oldCodes = [e \in Emails |-> {}]

Init ==
  /\ InitAuth
  /\ reqs = [s \in Slots |-> Idle]
  /\ notes = [n \in 1..MaxNotes |-> NoNote]
  /\ nextNote = 1
  /\ issued = {}
  /\ cookies = NoCookies
  /\ loggedOut = {}
  /\ presented = NoToken
  /\ attempts = [k \in Keys |-> NoEntry]
  /\ passed = <<>>

Handlers ==
  \/ \E email \in InputEmails, code \in Codes, ok \in BOOLEAN :
       signup(email, code, ok) /\ UNCHANGED <<otpWins, otpReplays>>
  \/ \E g \in GoogleTokens :
       googleSignup(g) /\ UNCHANGED <<nextGen, otpWins, otpReplays>>
  \/ \E email \in InputEmails, otp \in Codes : verifyOTP(email, otp)
  \/ \E email \in InputEmails, code \in Codes, ok \in BOOLEAN :
       signin(email, code, ok)
  \/ \E email \in InputEmails, otp \in Codes : verifySigninOTP(email, otp)
  \/ \E g \in GoogleTokens : googleLogin(g)
  \/ \E email \in InputEmails, code \in Codes, ok \in BOOLEAN :
       resendOTP(email, code, ok)

Next ==
  \/ Handlers /\ UNCHANGED <<now, advances, reqs, notes, nextNote, sessVars,
                 limiterVars>>
  \/ \E e \in Emails : TTLExpire(e)
  \/ \E d \in ClockSteps : Advance(d)

Spec == Init /\ [][Next]_vars

(***************************************************************************)
(* Concurrent requests: a handler is suspended at each await, so it is     *)
(* split at its store calls.  A slot holds one request in flight with the  *)
(* document its findOne returned; a new request takes the lowest free      *)
(* slot.  The requests overlap within one instant: the clock does not      *)
(* advance in this specification.                                          *)
(***************************************************************************)
Load(s, op, email, otp) ==
  /\ reqs[s] = Idle
  /\ \A s2 \in Slots : s2 < s => reqs[s2] # Idle
  /\ reqs' = [reqs EXCEPT ![s] = [op |-> op, email |-> toLowerCase(email),
                                  otp |-> otp,
                                  doc |-> users[toLowerCase(email)],
                                  pc |-> "found"]]
  /\ UNCHANGED <<authVars, notes, nextNote>>

Running(s, op, pc) ==
  /\ reqs[s] # Idle
  /\ reqs[s].op = op
  /\ reqs[s].pc = pc

Done(s) == reqs' = [reqs EXCEPT ![s] = Idle]

\* signup up to its findOne
signupFind(s, email) == Load(s, "signup", email, NullCode)

\* signup from its findOne to user.save(), which inserts the new document;
\* the unique index on email rejects the insert when a record appeared
\* since the findOne (E11000: reported as a conflict or as a server error,
\* depending on the driver's error name)
signupSave(s, code) ==
  LET e == reqs[s].email
      existingUser == reqs[s].doc
      user == generateOTP(NewUser(nextId, "email", FALSE, NullId, NullDate),
                          code, nextGen, now)
  IN
  /\ Running(s, "signup", "found")
  /\ IF existingUser # NoUser
     THEN /\ last' = Reply("signup", e, NullCode,
                        IF existingUser.isEmailVerified
                        THEN ConflictError("USER_ALREADY_VERIFIED")
                        ELSE ConflictError("USER_EXISTS_UNVERIFIED"),
                           FALSE, 0)
          /\ Done(s)
          /\ UNCHANGED <<users, nextId, nextGen, oldCodes>>
     ELSE /\ nextId <= MaxUsers
          /\ nextGen <= MaxOtps
          /\ nextId' = nextId + 1
          /\ nextGen' = nextGen + 1
          /\ IF users[e] # NoUser
             THEN /\ \E resp \in {ConflictError("USER_ALREADY_EXISTS"),
                                  AppError(500, "INTERNAL_ERROR")} :
                       last' = Reply("signup", e, NullCode, resp, FALSE, 0)
                  /\ Done(s)
                  /\ UNCHANGED <<users, oldCodes>>
             ELSE /\ users' = [users EXCEPT ![e] = user]
                  /\ oldCodes' = [oldCodes EXCEPT ![e] = {}]
                  /\ reqs' = [reqs EXCEPT ![s].doc = user, ![s].pc = "saved"]
                  /\ UNCHANGED last
  /\ UNCHANGED <<now, advances, otpWins, otpReplays, notes, nextNote>>

\* signup from sendOTPEmail on: the reply, or findByIdAndDelete and the error
signupSend(s, ok) ==
  LET e == reqs[s].email
      user == reqs[s].doc
  IN
  /\ Running(s, "signup", "saved")
  /\ users' = IF ~ok /\ users[e] # NoUser /\ users[e].id = user.id
              THEN [users EXCEPT ![e] = NoUser] ELSE users
  /\ last' = Reply("signup", e, NullCode,
                   IF ok THEN Success(201)
                   ELSE AppError(500, "EMAIL_SEND_FAILED"), FALSE, 0)
  /\ Done(s)
  /\ UNCHANGED <<nextId, nextGen, now, advances, otpWins, otpReplays,
                 oldCodes, notes, nextNote>>

verifyOTPFind(s, email, otp) == Load(s, "verify-otp", email, otp)

verifyOTPSave(s) ==
  /\ Running(s, "verify-otp", "found")
  /\ Commit("verify-otp", reqs[s].email, reqs[s].otp, reqs[s].doc,
            verifyOTPResult(reqs[s].doc, reqs[s].otp, now))
  /\ Done(s)
  /\ UNCHANGED <<nextId, now, advances, notes, nextNote>>

signinFind(s, email) == Load(s, "signin", email, NullCode)

signinSave(s, code, ok) ==
  /\ Running(s, "signin", "found")
  /\ Commit("signin", reqs[s].email, NullCode, reqs[s].doc,
            signinResult(reqs[s].doc, code, nextGen, ok, now))
  /\ Done(s)
  /\ UNCHANGED <<nextId, now, advances, notes, nextNote>>

verifySigninOTPFind(s, email, otp) == Load(s, "verify-signin-otp", email, otp)

verifySigninOTPSave(s) ==
  /\ Running(s, "verify-signin-otp", "found")
  /\ Commit("verify-signin-otp", reqs[s].email, reqs[s].otp, reqs[s].doc,
            verifySigninOTPResult(reqs[s].doc, reqs[s].otp, now))
  /\ Done(s)
  /\ UNCHANGED <<nextId, now, advances, notes, nextNote>>

resendOTPFind(s, email) == Load(s, "resend-otp", email, NullCode)

resendOTPSave(s, code, ok) ==
  /\ Running(s, "resend-otp", "found")
  /\ Commit("resend-otp", reqs[s].email, NullCode, reqs[s].doc,
            resendOTPResult(reqs[s].doc, code, nextGen, ok, now))
  /\ Done(s)
  /\ UNCHANGED <<nextId, now, advances, notes, nextNote>>

ConcNext ==
  /\ UNCHANGED <<sessVars, limiterVars>>
  /\ \/ \E s \in Slots, email \in InputEmails : signupFind(s, email)
     \/ \E s \in Slots, code \in Codes :
          nextGen <= MaxConcOtps /\ signupSave(s, code)
     \/ \E s \in Slots, ok \in BOOLEAN : signupSend(s, ok)
     \/ \E s \in Slots, email \in InputEmails, otp \in Codes :
          verifyOTPFind(s, email, otp)
     \/ \E s \in Slots : verifyOTPSave(s)
     \/ \E s \in Slots, email \in InputEmails : signinFind(s, email)
     \/ \E s \in Slots, code \in Codes, ok \in BOOLEAN :
          nextGen <= MaxConcOtps /\ signinSave(s, code, ok)
     \/ \E s \in Slots, email \in InputEmails, otp \in Codes :
          verifySigninOTPFind(s, email, otp)
     \/ \E s \in Slots : verifySigninOTPSave(s)
     \/ \E s \in Slots, email \in InputEmails : resendOTPFind(s, email)
     \/ \E s \in Slots, code \in Codes, ok \in BOOLEAN :
          nextGen <= MaxConcOtps /\ resendOTPSave(s, code, ok)

ConcSpec == Init /\ [][ConcNext]_vars

(***************************************************************************)
(* Notes.  A note document is [title, content, userId, tags, isPinned,     *)
(* isArchived]; ids are handed out in creation order, so a larger id is a  *)
(* later createdAt.  Strings are sequences of characters.  An optional     *)
(* boolean of a request body or query is "undefined", "true" or "false".   *)
(***************************************************************************)
NoteIds == 1..MaxNotes
Titles == {<<"a">>, <<" ", "b">>}
Contents == {<<"c", " ">>}
TagLists == {<<"t">>}
OptBool == {"undefined", "true", "false"}
SearchTerms == {"a", "t"}
UserIds == {1, 2}

\* request bodies of PUT /notes/:id; given is the set of fields present
Body(given, title, isPinned, isArchived) ==
  [given |-> given, title |-> title, content |-> <<"c", " ">>,
   tags |-> <<"t">>, isPinned |-> isPinned, isArchived |-> isArchived]
UpdateBodies ==
  {Body({"title"}, <<" ", "b">>, FALSE, FALSE),
   Body({"title", "content", "tags"}, <<"a">>, FALSE, FALSE),
   Body({"isPinned"}, <<"a">>, TRUE, FALSE),
   Body({"isPinned"}, <<"a">>, FALSE, FALSE),
   Body({"isArchived"}, <<"a">>, FALSE, TRUE),
   Body({"isArchived"}, <<"a">>, FALSE, FALSE),
   Body({"isPinned", "isArchived"}, <<"a">>, TRUE, TRUE),
   Body({}, <<"a">>, FALSE, FALSE)}

\* query strings of GET /notes
Query(search, tags, isPinned, isArchived, page, limit) ==
  [search |-> search, tags |-> tags, isPinned |-> isPinned,
   isArchived |-> isArchived, page |-> page, limit |-> limit]
Queries ==
  {Query("undefined", "undefined", "undefined", "undefined", 1, 10),
   Query("undefined", "undefined", "undefined", "undefined", 2, 1),
   Query("a", "undefined", "undefined", "undefined", 1, 10),
   Query("undefined", "t", "undefined", "undefined", 1, 1),
   Query("undefined", "undefined", "true", "undefined", 1, 10),
   Query("undefined", "undefined", "undefined", "true", 1, 10),
   Query("undefined", "undefined", "false", "false", 1, 10)}
SearchQueries ==
  {[q |-> "a", page |-> 1, limit |-> 10], [q |-> "t", page |-> 1, limit |-> 10],
   [q |-> "t", page |-> 2, limit |-> 1]}

RECURSIVE trimStart(_)
trimStart(str) ==
  IF str # <<>> /\ Head(str) = " " THEN trimStart(Tail(str)) ELSE str

RECURSIVE trimEnd(_)
trimEnd(str) ==
  IF str # <<>> /\ str[Len(str)] = " "
  THEN trimEnd(SubSeq(str, 1, Len(str) - 1)) ELSE str

\* String.prototype.trim
trim(str) == trimEnd(trimStart(str))

Range(seq) == {seq[i] : i \in 1..Len(seq)}

\* the ids of S, latest first (sort createdAt: -1)
RECURSIVE LatestFirst(_)
LatestFirst(S) ==
  IF S = {} THEN <<>>
  ELSE LET m == CHOOSE x \in S : \A y \in S : y <= x
       IN <<m>> \o LatestFirst(S \ {m})

\* .skip(skip).limit(limit)
SkipLimit(seq, skip, limit) ==
  SubSeq(seq, skip + 1, IF skip + limit < Len(seq) THEN skip + limit
                        ELSE Len(seq))

\* $text: { $search: q } over the text index on title, content and tags
TextMatch(note, q) ==
  q \in Range(note.title) \cup Range(note.content) \cup Range(note.tags)

findAnyOwner(id, uid) == notes[id]

\* Note.findOne({ _id: id, userId: req.user._id })
findOwned(id, uid) ==
  IF notes[id] # NoNote /\ notes[id].userId = uid THEN notes[id] ELSE NoNote

\* Note.find(query) of getNotes, query = { userId, $text?, tags?, isPinned?,
\* isArchived? }
getNotesQuery(uid, search, tags, isPinned, isArchived) ==
  {id \in NoteIds :
     /\ notes[id] # NoNote
     /\ notes[id].userId = uid
     /\ search # "undefined" => TextMatch(notes[id], search)
     /\ tags # "undefined" => tags \in Range(notes[id].tags)
     /\ isPinned # "undefined" => notes[id].isPinned = (isPinned = "true")
     /\ isArchived # "undefined" =>
          notes[id].isArchived = (isArchived = "true")}

\* the request passed authenticateToken and requireEmailVerification as uid
Authenticated(uid) ==
  \E e \in Emails : /\ users[e] # NoUser
                    /\ users[e].id = uid
                    /\ users[e].isEmailVerified

\* the reply of a notes request, with its caller and :id, the ids of the
\* notes it returns and the document its findOne returned
NoteReply(op, uid, id, resp, returned, found) ==
  [op |-> op, caller |-> uid, id |-> id, resp |-> resp, notes |-> returned,
   found |-> found]

\* POST /notes
createNote(uid, title, content, tags, isPinned) ==
  /\ Authenticated(uid)
  /\ nextNote <= MaxNotes
  /\ notes' = [notes EXCEPT ![nextNote] =
                 [title |-> trim(title), content |-> trim(content),
                  userId |-> uid, tags |-> tags,
                  isPinned |-> (isPinned = "true"), isArchived |-> FALSE]]
  /\ nextNote' = nextNote + 1
  /\ last' = NoteReply("createNote", uid, nextNote, Success(201), <<nextNote>>,
                            NoNote)

\* GET /notes
getNotes(uid, query) ==
  /\ Authenticated(uid)
  /\ last' = NoteReply("getNotes", uid, 0, Success(200),
                       SkipLimit(LatestFirst(getNotesQuery(uid, query.search,
                                   query.tags, query.isPinned,
                                   query.isArchived)),
                                 (query.page - 1) * query.limit, query.limit),
                            NoNote)
  /\ UNCHANGED <<notes, nextNote>>

\* GET /notes/:id
getNote(uid, id) ==
  /\ Authenticated(uid)
  /\ last' = IF findOwned(id, uid) = NoNote
             THEN NoteReply("getNote", uid, id,
                            NotFoundError("NOTE_NOT_FOUND"), <<>>,
                            findOwned(id, uid))
             ELSE NoteReply("getNote", uid, id, Success(200), <<id>>,
                            findOwned(id, uid))
  /\ UNCHANGED <<notes, nextNote>>

\* PUT /notes/:id
updateNote(uid, id, body) ==
  LET note == findOwned(id, uid)
      given == body.given
      title == body.title
      content == body.content
      tags == body.tags
      isPinned == body.isPinned
      isArchived == body.isArchived
  IN
  /\ Authenticated(uid)
  /\ IF note = NoNote
     THEN /\ last' = NoteReply("updateNote", uid, id,
                               NotFoundError("NOTE_NOT_FOUND"), <<>>,
                            note)
          /\ UNCHANGED notes
     ELSE /\ notes' = [notes EXCEPT ![id] =
               [title |-> IF "title" \in given THEN trim(title)
                          ELSE note.title,
                content |-> IF "content" \in given THEN trim(content)
                            ELSE note.content,
                userId |-> note.userId,
                tags |-> IF "tags" \in given THEN tags ELSE note.tags,
                isPinned |-> IF "isPinned" \in given THEN isPinned
                             ELSE note.isPinned,
                isArchived |-> IF "isArchived" \in given THEN isArchived
                               ELSE note.isArchived]]
          /\ last' = NoteReply("updateNote", uid, id, Success(200), <<id>>,
                            note)
  /\ UNCHANGED nextNote

\* DELETE /notes/:id
deleteNote(uid, id) ==
  /\ Authenticated(uid)
  /\ IF findOwned(id, uid) = NoNote
     THEN /\ last' = NoteReply("deleteNote", uid, id,
                               NotFoundError("NOTE_NOT_FOUND"), <<>>,
                            findOwned(id, uid))
          /\ UNCHANGED notes
     ELSE /\ notes' = [notes EXCEPT ![id] = NoNote]
          /\ last' = NoteReply("deleteNote", uid, id, Success(200), <<>>,
                            findOwned(id, uid))
  /\ UNCHANGED nextNote

\* POST /notes/:id/pin
togglePin(uid, id) ==
  LET note == findOwned(id, uid) IN
  /\ Authenticated(uid)
  /\ IF note = NoNote
     THEN /\ last' = NoteReply("togglePin", uid, id,
                               NotFoundError("NOTE_NOT_FOUND"), <<>>,
                            note)
          /\ UNCHANGED notes
     ELSE /\ notes' = [notes EXCEPT ![id].isPinned = ~note.isPinned]
          /\ last' = NoteReply("togglePin", uid, id, Success(200), <<id>>,
                            note)
  /\ UNCHANGED nextNote

archiveKeepsPin(note) == [note EXCEPT !.isArchived = ~note.isArchived]

\* the assignments of toggleArchive between findOne and save
archiveToggled(note) ==
  [note EXCEPT !.isArchived = ~note.isArchived,
               !.isPinned = IF ~note.isArchived THEN FALSE ELSE note.isPinned]

\* POST /notes/:id/archive
toggleArchive(uid, id) ==
  LET note == findOwned(id, uid) IN
  /\ Authenticated(uid)
  /\ IF note = NoNote
     THEN /\ last' = NoteReply("toggleArchive", uid, id,
                               NotFoundError("NOTE_NOT_FOUND"), <<>>,
                            note)
          /\ UNCHANGED notes
     ELSE /\ notes' = [notes EXCEPT ![id] = archiveToggled(note)]
          /\ last' = NoteReply("toggleArchive", uid, id, Success(200), <<id>>,
                            note)
  /\ UNCHANGED nextNote

\* GET /notes/search?q=
searchNotes(uid, query) ==
  /\ Authenticated(uid)
  /\ last' = NoteReply("searchNotes", uid, 0, Success(200),
                       SkipLimit(LatestFirst(getNotesQuery(uid, query.q,
                                   "undefined", "undefined", "undefined")),
                                 (query.page - 1) * query.limit, query.limit),
                            NoNote)
  /\ UNCHANGED <<notes, nextNote>>

\* two verified users: an email-mode record and a google-mode record
NotesInit ==
  /\ users = [e \in Emails |->
                IF e = "a@x.com"
                THEN NewUser(1, "email", TRUE, NullId, 0)
                ELSE NewUser(2, "google", TRUE, "g1", 0)]
  /\ nextId = 3
  /\ nextGen = 1
  /\ now = 0
  /\ advances = 0
  /\ last = NoteReply(None, 0, 0, Success(0), <<>>, NoNote)
  /\ otpWins = {}
  /\ otpReplays = {}
  /\ oldCodes = [e \in Emails |-> {}]
  /\ reqs = [s \in Slots |-> Idle]
  /\ notes = [n \in NoteIds |-> NoNote]
  /\ nextNote = 1
  /\ issued = {}
  /\ cookies = NoCookies
  /\ loggedOut = {}
  /\ presented = NoToken
  /\ attempts = [k \in Keys |-> NoEntry]
  /\ passed = <<>>

NoteHandlers ==
  \/ \E uid \in UserIds, title \in Titles, content \in Contents,
        tags \in TagLists, isPinned \in OptBool :
       createNote(uid, title, content, tags, isPinned)
  \/ \E uid \in UserIds, query \in Queries : getNotes(uid, query)
  \/ \E uid \in UserIds, id \in NoteIds : getNote(uid, id)
  \/ \E uid \in UserIds, id \in NoteIds, body \in UpdateBodies :
       updateNote(uid, id, body)
  \/ \E uid \in UserIds, id \in NoteIds : deleteNote(uid, id)
  \/ \E uid \in UserIds, id \in NoteIds : togglePin(uid, id)
  \/ \E uid \in UserIds, id \in NoteIds : toggleArchive(uid, id)
  \/ \E uid \in UserIds, query \in SearchQueries : searchNotes(uid, query)

NotesNext ==
  NoteHandlers /\ UNCHANGED <<users, nextId, nextGen, now, advances, otpWins,
                              otpReplays, oldCodes, reqs, sessVars,
                 limiterVars>>

NotesSpec == NotesInit /\ [][NotesNext]_vars

(***************************************************************************)
(* Sessions.  A token is the payload jwt.sign puts in it, with the secret  *)
(* it was signed with as its kind; iat and exp are in seconds.  The access *)
(* token's email and isEmailVerified claims are left out: no verification  *)
(* reads them.  Garbage is a string that no secret of the server signed.   *)
(* The specification starts from the state of a google-mode user who       *)
(* signed up a refresh-token lifetime ago and logged in again an           *)
(* access-token lifetime ago, both less TokenSecondsLeft seconds, so that  *)
(* the expiry of both kinds of token lies within the clock's reach.        *)
(***************************************************************************)
MaxSessions == 1
TokenSecondsLeft == 10

accessTokenExpiry == 604800
refreshTokenExpiry == 2592000
clockTolerance == 60

Garbage == [kind |-> "garbage"]
SessionEmails == {"b@x.com"}
SessionCodes == {"111111"}
SessionGoogleTokens ==
  [id : {"g1"}, email : {"a@x.com"}, verified_email : BOOLEAN]

\* jwt.sign(payload, secret, { expiresIn })
Token(kind, userId, iat) ==
  [kind |-> kind, userId |-> userId, iat |-> iat,
   exp |-> iat + IF kind = "access" THEN accessTokenExpiry
                 ELSE refreshTokenExpiry]

\* JWTService.generateTokenPair at time t
generateTokenPair(user, t) ==
  [accessToken |-> Token("access", user.id, t \div MsPerSecond),
   refreshToken |-> Token("refresh", user.id, t \div MsPerSecond)]

verifyAccessTokenAnySecret(token, t) ==
  IF token.kind \notin {"access", "refresh"} THEN "Invalid token"
  ELSE IF t \div MsPerSecond >= token.exp + clockTolerance
    THEN "Token expired"
  ELSE "ok"

\* JWTService.verifyAccessToken: "ok" or the message of the error it throws
verifyAccessToken(token, t) ==
  IF token.kind # "access" THEN "Invalid token"
  ELSE IF t \div MsPerSecond >= token.exp + clockTolerance
    THEN "Token expired"
  ELSE "ok"

verifyRefreshTokenAnySecret(token, t) ==
  IF token.kind \notin {"access", "refresh"} THEN "Invalid refresh token"
  ELSE IF t \div MsPerSecond >= token.exp + clockTolerance
    THEN "Refresh token expired"
  ELSE "ok"

\* JWTService.verifyRefreshToken: "ok" or the message of the error it throws
verifyRefreshToken(token, t) ==
  IF token.kind # "refresh" THEN "Invalid refresh token"
  ELSE IF t \div MsPerSecond >= token.exp + clockTolerance
    THEN "Refresh token expired"
  ELSE "ok"

\* User.findById
findById(userId) ==
  LET found == {e \in Emails : users[e] # NoUser /\ users[e].id = userId}
  IN IF found = {} THEN NoUser ELSE users[CHOOSE e \in found : TRUE]

Denied(status, errorCode) ==
  [resp |-> AppError(status, errorCode), user |-> NoUser]

authenticateTokenRevoking(token, t) ==
  IF token = NoToken THEN Denied(401, "MISSING_TOKEN")
  ELSE IF token \in loggedOut THEN Denied(401, "INVALID_TOKEN")
  ELSE IF verifyAccessToken(token, t) = "Token expired"
    THEN Denied(401, "TOKEN_EXPIRED")
  ELSE IF verifyAccessToken(token, t) # "ok"
    THEN Denied(401, "INVALID_TOKEN")
  ELSE IF findById(token.userId) = NoUser THEN Denied(401, "USER_NOT_FOUND")
  ELSE IF ~findById(token.userId).isEmailVerified
    THEN Denied(403, "EMAIL_NOT_VERIFIED")
  ELSE [resp |-> Success(200), user |-> findById(token.userId)]

\* middleware authenticateToken for the token of the Authorization header
\* or the accessToken cookie: the response it sends, or req.user
authenticateToken(token, t) ==
  IF token = NoToken THEN Denied(401, "MISSING_TOKEN")
  ELSE IF verifyAccessToken(token, t) = "Token expired"
    THEN Denied(401, "TOKEN_EXPIRED")
  ELSE IF verifyAccessToken(token, t) # "ok"
    THEN Denied(401, "INVALID_TOKEN")
  ELSE IF findById(token.userId) = NoUser THEN Denied(401, "USER_NOT_FOUND")
  ELSE IF ~findById(token.userId).isEmailVerified
    THEN Denied(403, "EMAIL_NOT_VERIFIED")
  ELSE [resp |-> Success(200), user |-> findById(token.userId)]

\* middleware requireEmailVerification on req.user
requireEmailVerification(user) ==
  IF user = NoUser THEN AppError(401, "AUTHENTICATION_REQUIRED")
  ELSE IF ~user.isEmailVerified THEN AppError(403, "EMAIL_NOT_VERIFIED")
  ELSE Success(200)

\* the reply of a request that presented a token
SessionReply(op, token, resp, tokens) ==
  [op |-> op, token |-> token, resp |-> resp, tokens |-> tokens]

\* setAuthCookies(res, accessToken, refreshToken)
setAuthCookies(pair) ==
  /\ Cardinality(issued \cup {pair.accessToken, pair.refreshToken})
       <= 2 * (2 + MaxSessions)
  /\ issued' = issued \cup {pair.accessToken, pair.refreshToken}
  /\ cookies' = pair

\* the cookies on the reply of an auth handler
WithCookies ==
  IF last'.tokens
  THEN setAuthCookies(generateTokenPair(users'[last'.email], now))
  ELSE UNCHANGED <<issued, cookies>>

\* controllers/authController.ts refreshToken, after validateRefreshToken
refreshTokenResult(token, t) ==
  IF verifyRefreshToken(token, t) # "ok"
    THEN AuthenticationError("INVALID_REFRESH_TOKEN")
  ELSE IF findById(token.userId) = NoUser
    THEN AuthenticationError("USER_NOT_FOUND")
  ELSE IF /\ ~findById(token.userId).isEmailVerified
          /\ findById(token.userId).authProvider = "email"
    THEN AuthenticationError("EMAIL_NOT_VERIFIED")
  ELSE Success(200)

\* POST /auth/refresh
refreshToken(token) ==
  LET resp == refreshTokenResult(token, now) IN
  /\ last' = SessionReply("refresh", token, resp, resp = Success(200))
  /\ IF resp = Success(200)
     THEN setAuthCookies(generateTokenPair(findById(token.userId), now))
     ELSE UNCHANGED <<issued, cookies>>
  /\ UNCHANGED <<users, nextId, nextGen, now, advances, otpWins, otpReplays,
                 oldCodes, reqs, notes, nextNote, loggedOut>>
  /\ presented' = token
  /\ UNCHANGED limiterVars

\* POST /auth/logout behind authenticateToken; the session of a token is
\* the pair it was issued in
logout(token) ==
  LET auth == authenticateToken(token, now) IN
  /\ last' = SessionReply("logout", token, auth.resp, FALSE)
  /\ cookies' = IF auth.resp = Success(200) THEN NoCookies ELSE cookies
  /\ loggedOut' = IF auth.resp = Success(200)
                  THEN loggedOut \cup {tk \in issued :
                                         /\ tk.userId = token.userId
                                         /\ tk.iat = token.iat}
                  ELSE loggedOut
  /\ UNCHANGED <<users, nextId, nextGen, now, advances, otpWins, otpReplays,
                 oldCodes, reqs, notes, nextNote, issued>>
  /\ presented' = token
  /\ UNCHANGED limiterVars

\* a request to /notes: router.use(authenticateToken),
\* router.use(requireEmailVerification), then the route's handler; POST /
\* and GET / stand for the routes behind the two middlewares
notesRequest(token) ==
  LET auth == authenticateToken(token, now)
      gate == IF auth.resp # Success(200) THEN auth.resp
              ELSE requireEmailVerification(auth.user)
  IN
  /\ IF gate # Success(200)
     THEN /\ last' = SessionReply("notes", token, gate, FALSE)
          /\ UNCHANGED <<notes, nextNote>>
     ELSE \/ createNote(auth.user.id, <<"a">>, <<"c", " ">>, <<"t">>,
                        "undefined")
          \/ getNotes(auth.user.id,
                      Query("undefined", "undefined", "undefined",
                            "undefined", 1, 10))
  /\ presented' = token
  /\ UNCHANGED limiterVars
  /\ UNCHANGED <<users, nextId, nextGen, now, advances, otpWins, otpReplays,
                 oldCodes, reqs, issued, cookies, loggedOut>>

OldAccessIat == TokenSecondsLeft - accessTokenExpiry
OldRefreshIat == TokenSecondsLeft - refreshTokenExpiry

SessionInit ==
  /\ users = [e \in Emails |->
                IF e = "a@x.com"
                THEN NewUser(1, "google", TRUE, "g1",
                             OldAccessIat * MsPerSecond)
                ELSE NoUser]
  /\ nextId = 2
  /\ nextGen = 1
  /\ now = 0
  /\ advances = 0
  /\ last = SessionReply(None, NoToken, Success(0), FALSE)
  /\ otpWins = {}
  /\ otpReplays = {}
  /\ oldCodes = [e \in Emails |-> {}]
  /\ reqs = [s \in Slots |-> Idle]
  /\ notes = [n \in NoteIds |-> NoNote]
  /\ nextNote = 1
  /\ issued = {Token(kind, 1, iat) : kind \in {"access", "refresh"},
                                     iat \in {OldAccessIat, OldRefreshIat}}
  /\ cookies = [accessToken |-> Token("access", 1, OldAccessIat),
                refreshToken |-> Token("refresh", 1, OldAccessIat)]
  /\ loggedOut = {}
  /\ presented = NoToken
  /\ attempts = [k \in Keys |-> NoEntry]
  /\ passed = <<>>

SessionHandlers ==
  \/ \E email \in SessionEmails, code \in SessionCodes :
       signup(email, code, TRUE) /\ UNCHANGED <<otpWins, otpReplays>>
  \/ \E email \in SessionEmails, otp \in SessionCodes : verifyOTP(email, otp)
  \/ \E email \in SessionEmails, code \in SessionCodes :
       signin(email, code, TRUE)
  \/ \E g \in SessionGoogleTokens : googleLogin(g)

SessionNext ==
  \/ /\ SessionHandlers
     /\ WithCookies
     /\ presented' = NoToken
     /\ UNCHANGED <<now, advances, reqs, notes, nextNote, loggedOut,
                    limiterVars>>
  \/ \E token \in issued \cup {Garbage} : refreshToken(token)
  \/ \E token \in {cookies.accessToken, Garbage} : logout(token)
  \/ \E token \in issued \cup {Garbage, NoToken} : notesRequest(token)
  \/ \E e \in Emails : TTLExpire(e)
  \/ \E d \in ClockSteps : Advance(d)

SessionSpec == SessionInit /\ [][SessionNext]_vars

(***************************************************************************)
(* Identities.  The auth handlers run one after another with Google        *)
(* tokens for both addresses, so that two google-mode records, and a       *)
(* Google identity offered for a second address, occur.                    *)
(***************************************************************************)
IdentityEmails == {"a@x.com"}
IdentityCodes == {"111111"}
IdentityGoogleTokens ==
  [id : GoogleIds, email : Emails, verified_email : BOOLEAN]

IdentityHandlers ==
  \/ \E email \in IdentityEmails, code \in IdentityCodes :
       signup(email, code, TRUE) /\ UNCHANGED <<otpWins, otpReplays>>
  \/ \E g \in IdentityGoogleTokens :
       googleSignup(g) /\ UNCHANGED <<nextGen, otpWins, otpReplays>>
  \/ \E email \in IdentityEmails, otp \in IdentityCodes :
       verifyOTP(email, otp)
  \/ \E email \in IdentityEmails, code \in IdentityCodes :
       signin(email, code, TRUE)
  \/ \E email \in IdentityEmails, otp \in IdentityCodes :
       verifySigninOTP(email, otp)
  \/ \E g \in IdentityGoogleTokens : googleLogin(g)
  \/ \E email \in IdentityEmails, code \in IdentityCodes :
       resendOTP(email, code, TRUE)

IdentityNext ==
  \/ IdentityHandlers
       /\ UNCHANGED <<now, advances, reqs, notes, nextNote, sessVars,
                 limiterVars>>
  \/ \E e \in Emails : TTLExpire(e)
  \/ \E d \in ClockSteps : Advance(d)

IdentitySpec == Init /\ [][IdentityNext]_vars

(***************************************************************************)
(* google-login as a function of the record it finds.  The schema does not *)
(* require googleId, and googleLogin has a branch for a google-mode record *)
(* without one; no handler creates such a record, so here the store starts *)
(* with a google-mode record whose googleId is drawn from the ids and      *)
(* "unset".                                                                *)
(***************************************************************************)
StoredInit ==
  /\ \E gid \in GoogleIds \cup {NullId}, verified \in BOOLEAN :
       users = [e \in Emails |->
                  IF e = "a@x.com"
                  THEN NewUser(1, "google", verified, gid, NullDate)
                  ELSE NoUser]
  /\ nextId = 2
  /\ nextGen = 1
  /\ now = 0
  /\ advances = 0
  /\ last = Reply(None, None, NullCode, Success(0), FALSE, 0)
  /\ otpWins = {}
  /\ otpReplays = {}
  /\ oldCodes = [e \in Emails |-> {}]
  /\ reqs = [s \in Slots |-> Idle]
  /\ notes = [n \in NoteIds |-> NoNote]
  /\ nextNote = 1
  /\ issued = {}
  /\ cookies = NoCookies
  /\ loggedOut = {}
  /\ presented = NoToken
  /\ attempts = [k \in Keys |-> NoEntry]
  /\ passed = <<>>

StoredNext ==
  \/ (\E g \in IdentityGoogleTokens : googleLogin(g))
       /\ UNCHANGED <<now, advances, reqs, notes, nextNote, sessVars,
                 limiterVars>>
  \/ (\E g \in IdentityGoogleTokens :
        googleSignup(g) /\ UNCHANGED <<nextGen, otpWins, otpReplays>>)
       /\ UNCHANGED <<now, advances, reqs, notes, nextNote, sessVars,
                 limiterVars>>
  \/ \E d \in ClockSteps : Advance(d)

StoredSpec == StoredInit /\ [][StoredNext]_vars

(***************************************************************************)
(* The in-memory limiter authRateLimit(maxAttempts, windowMs) of           *)
(* controllers/authController.ts, called here with maxAttempts = 2 and     *)
(* windowMs = 30 seconds.  A key is the client address and the email of    *)
(* the request body.  An entry of the Map is [count, resetTime].           *)
(***************************************************************************)
MaxRequests == 5

maxAttempts == 2
windowMs == 30000
LimiterSteps == {10000, 20000}

LimiterReply(key, next, resp, retryAfter) ==
  [op |-> "authRateLimit", key |-> key, next |-> next, resp |-> resp,
   retryAfter |-> retryAfter]

\* next(): the request goes on to the handler
PassOn(key) ==
  /\ Len(passed) < MaxRequests
  /\ passed' = Append(passed, [key |-> key, time |-> now])
  /\ last' = LimiterReply(key, TRUE, Success(0), 0)

\* the middleware authRateLimit(maxAttempts, windowMs) returns, for a
\* request with this key
authRateLimit(key) ==
  LET cleaned == [k \in Keys |->
                    IF attempts[k] # NoEntry /\ now > attempts[k].resetTime
                    THEN NoEntry ELSE attempts[k]]
      attemptData == cleaned[key]
      fresh == [count |-> 1, resetTime |-> now + windowMs]
  IN
  /\ IF attemptData # NoEntry
     THEN IF now < attemptData.resetTime
          THEN IF attemptData.count >= maxAttempts
               THEN /\ last' = LimiterReply(key, FALSE,
                                 AppError(429, "RATE_LIMIT_EXCEEDED"),
                                 CeilSeconds(attemptData.resetTime - now))
                    /\ attempts' = cleaned
                    /\ UNCHANGED passed
               ELSE /\ attempts' = [cleaned EXCEPT ![key].count = @ + 1]
                    /\ PassOn(key)
          ELSE /\ attempts' = [cleaned EXCEPT ![key] = fresh]
               /\ PassOn(key)
     ELSE /\ attempts' = [cleaned EXCEPT ![key] = fresh]
          /\ PassOn(key)
  /\ UNCHANGED <<users, nextId, nextGen, now, advances, otpWins, otpReplays,
                 oldCodes, reqs, notes, nextNote, sessVars>>

LimiterNext ==
  \/ \E key \in Keys : authRateLimit(key)
  \/ \E d \in LimiterSteps : Advance(d)

LimiterSpec == Init /\ [][LimiterNext]_vars

(***************************************************************************)
(* signin against resend-otp.  The store holds a verified email-mode user  *)
(* whose verify-otp has just cleared the OTP, as after signup and          *)
(* verify-otp.  Slot 1 takes a signin and slot 2 a resend-otp, so two      *)
(* codes generated at the same instant come from one of each;              *)
(* verify-signin-otp runs in either slot.                                  *)
(***************************************************************************)
RaceEmail == "a@x.com"

RaceInit ==
  /\ users = [e \in Emails |->
                IF e = RaceEmail THEN NewUser(1, "email", TRUE, NullId, 0)
                ELSE NoUser]
  /\ nextId = 2
  /\ nextGen = 2
  /\ now = 0
  /\ advances = 0
  /\ last = Reply("verify-otp", RaceEmail, "111111", Success(200), TRUE, 0)
  /\ otpWins = {1}
  /\ otpReplays = {}
  /\ oldCodes = [e \in Emails |-> {}]
  /\ reqs = [s \in Slots |-> Idle]
  /\ notes = [n \in NoteIds |-> NoNote]
  /\ nextNote = 1
  /\ issued = {}
  /\ cookies = NoCookies
  /\ loggedOut = {}
  /\ presented = NoToken
  /\ attempts = [k \in Keys |-> NoEntry]
  /\ passed = <<>>

RaceNext ==
  /\ UNCHANGED <<sessVars, limiterVars>>
  /\ \/ signinFind(1, RaceEmail)
     \/ \E code \in Codes, ok \in BOOLEAN : signinSave(1, code, ok)
     \/ resendOTPFind(2, RaceEmail)
     \/ \E code \in Codes, ok \in BOOLEAN : resendOTPSave(2, code, ok)
     \/ \E s \in Slots, otp \in Codes : verifySigninOTPFind(s, RaceEmail, otp)
     \/ \E s \in Slots : verifySigninOTPSave(s)

RaceSpec == RaceInit /\ [][RaceNext]_vars

(***************************************************************************)
(* Token issue for email-mode users: every handler an email-mode user can  *)
(* call without a session, with the cookies its reply sets, and refresh.   *)
(***************************************************************************)
\* POST /auth/check-user
checkUser(email) ==
  /\ last' = Reply("check-user", toLowerCase(email), NullCode, Success(200),
                   FALSE, 0)
  /\ UNCHANGED <<users, nextId, nextGen, oldCodes, otpWins, otpReplays>>

TokenHandlers ==
  \/ \E email \in SessionEmails, code \in SessionCodes :
       signup(email, code, TRUE) /\ UNCHANGED <<otpWins, otpReplays>>
  \/ \E email \in SessionEmails, otp \in Codes : verifyOTP(email, otp)
  \/ \E email \in SessionEmails, code \in SessionCodes :
       signin(email, code, TRUE)
  \/ \E email \in SessionEmails, otp \in Codes : verifySigninOTP(email, otp)
  \/ \E email \in SessionEmails, code \in SessionCodes :
       resendOTP(email, code, TRUE)
  \/ \E email \in SessionEmails : checkUser(email)

TokenNext ==
  \/ /\ TokenHandlers
     /\ WithCookies
     /\ presented' = NoToken
     /\ UNCHANGED <<now, advances, reqs, notes, nextNote, loggedOut,
                    limiterVars>>
  \/ \E token \in issued \cup {Garbage} : refreshToken(token)
  \/ \E e \in Emails : TTLExpire(e)
  \/ \E d \in ClockSteps : Advance(d)

TokenSpec == Init /\ [][TokenNext]_vars

(***************************************************************************)
(* Concurrent creations.  signup and google-signup are split at their      *)
(* store calls; both insert with user.save(), and the store's unique       *)
(* indexes on email and on googleId refuse an insert whose key a record    *)
(* already has (E11000: reported as a conflict or as a server error,       *)
(* depending on the driver's error name).  users maps an address to its    *)
(* record, so a second record for an address would show as a record        *)
(* replaced by one with another id.                                        *)
(***************************************************************************)
\* google-signup up to its findOne by email
googleSignupFind(s, g) ==
  /\ reqs[s] = Idle
  /\ \A s2 \in Slots : s2 < s => reqs[s2] # Idle
  /\ reqs' = [reqs EXCEPT ![s] = [op |-> "google-signup",
                                  email |-> toLowerCase(g.email),
                                  otp |-> NullCode,
                                  doc |-> users[toLowerCase(g.email)],
                                  pc |-> "found", g |-> g]]
  /\ UNCHANGED <<authVars, notes, nextNote>>

\* google-signup from its findOne by email to its findOne by googleId
googleSignupCheck(s) ==
  LET e == reqs[s].email
      existingUser == reqs[s].doc
  IN
  /\ Running(s, "google-signup", "found")
  /\ IF existingUser # NoUser
     THEN /\ last' = Reply("google-signup", e, NullCode,
                           IF existingUser.authProvider = "email"
                           THEN ConflictError("USER_EXISTS_WITH_EMAIL_AUTH")
                           ELSE ConflictError("USER_ALREADY_EXISTS_GOOGLE"),
                           FALSE, 0)
          /\ Done(s)
     ELSE /\ reqs' = [reqs EXCEPT
                        ![s].pc = "checked",
                        ![s].doc = IF \E x \in Emails :
                                        /\ users[x] # NoUser
                                        /\ users[x].googleId = reqs[s].g.id
                                   THEN users[CHOOSE x \in Emails :
                                                /\ users[x] # NoUser
                                                /\ users[x].googleId
                                                     = reqs[s].g.id]
                                   ELSE NoUser]
          /\ UNCHANGED last
  /\ UNCHANGED <<users, nextId, nextGen, now, advances, otpWins, otpReplays,
                 oldCodes, notes, nextNote>>

googleSignupSaveNoIndex(s) ==
  LET e == reqs[s].email
      g == reqs[s].g
      existingGoogleUser == reqs[s].doc
      user == NewUser(nextId, "google", g.verified_email, g.id, now)
  IN
  /\ Running(s, "google-signup", "checked")
  /\ IF existingGoogleUser # NoUser
     THEN /\ last' = Reply("google-signup", e, NullCode,
                           ConflictError("GOOGLE_ID_ALREADY_EXISTS"), FALSE, 0)
          /\ UNCHANGED <<users, nextId, oldCodes>>
     ELSE /\ nextId <= MaxUsers
          /\ nextId' = nextId + 1
          /\ users' = [users EXCEPT ![e] = user]
          /\ oldCodes' = [oldCodes EXCEPT ![e] = {}]
          /\ last' = Reply("google-signup", e, NullCode, Success(201),
                           TRUE, 0)
  /\ Done(s)
  /\ UNCHANGED <<nextGen, now, advances, otpWins, otpReplays, notes,
                 nextNote>>

\* google-signup from its findOne by googleId to user.save(), which inserts
\* the new document, and the reply
googleSignupSave(s) ==
  LET e == reqs[s].email
      g == reqs[s].g
      existingGoogleUser == reqs[s].doc
      user == NewUser(nextId, "google", g.verified_email, g.id, now)
      emailTaken == users[e] # NoUser
      idTaken == \E x \in Emails : users[x] # NoUser /\ users[x].googleId = g.id
  IN
  /\ Running(s, "google-signup", "checked")
  /\ IF existingGoogleUser # NoUser
     THEN /\ last' = Reply("google-signup", e, NullCode,
                           ConflictError("GOOGLE_ID_ALREADY_EXISTS"), FALSE, 0)
          /\ UNCHANGED <<users, nextId, oldCodes>>
     ELSE /\ nextId <= MaxUsers
          /\ nextId' = nextId + 1
          /\ IF emailTaken \/ idTaken
             THEN /\ \E resp \in
                       {ConflictError("USER_ALREADY_EXISTS") : x \in
                          {y \in {1} : emailTaken}}
                       \cup {ConflictError("DUPLICATE_FIELD") : x \in
                               {y \in {1} : idTaken}}
                       \cup {AppError(500, "INTERNAL_ERROR")} :
                       last' = Reply("google-signup", e, NullCode, resp,
                                     FALSE, 0)
                  /\ UNCHANGED <<users, oldCodes>>
             ELSE /\ users' = [users EXCEPT ![e] = user]
                  /\ oldCodes' = [oldCodes EXCEPT ![e] = {}]
                  /\ last' = Reply("google-signup", e, NullCode, Success(201),
                                   TRUE, 0)
  /\ Done(s)
  /\ UNCHANGED <<nextGen, now, advances, otpWins, otpReplays, notes,
                 nextNote>>

CreateNext ==
  /\ UNCHANGED <<sessVars, limiterVars>>
  /\ \/ \E s \in Slots, email \in InputEmails : signupFind(s, email)
     \/ \E s \in Slots, code \in Codes : signupSave(s, code)
     \/ \E s \in Slots, ok \in BOOLEAN : signupSend(s, ok)
     \/ \E s \in Slots, g \in IdentityGoogleTokens : googleSignupFind(s, g)
     \/ \E s \in Slots : googleSignupCheck(s)
     \/ \E s \in Slots : googleSignupSave(s)

CreateSpec == Init /\ [][CreateNext]_vars

(***************************************************************************)
(* Properties.  "Rejected with X" means that the reply names the failure   *)
(* X (Failure); which field of the reply carries the name is the subject   *)
(* of the claim about errorCode.                                           *)
(***************************************************************************)
UserOf(email) == users[toLowerCase(email)]

\* the endpoint that verifies an OTP for a record in u's state: verify-otp
\* for an unverified record, verify-signin-otp for a verified one
Verification(email, otp) ==
  \/ ~UserOf(email).isEmailVerified /\ verifyOTP(email, otp)
  \/ UserOf(email).isEmailVerified /\ verifySigninOTP(email, otp)

NoOtpGenerated == users' = users /\ nextGen' = nextGen

\* C1: auth modes are exclusive.  For a google-mode record, signin is
\* rejected with USE_GOOGLE_LOGIN and generates no OTP, and neither
\* verify-otp nor verify-signin-otp issues it a token pair; for an
\* email-mode record, google-login is rejected with USE_EMAIL_LOGIN and
\* issues no token pair.
C1_AuthModesExclusive ==
  [][/\ \A email \in InputEmails :
          (UserOf(email) # NoUser /\ UserOf(email).authProvider = "google")
          => /\ \A code \in Codes, ok \in BOOLEAN :
                  (last'.op = "signin" /\ signin(email, code, ok))
                  => /\ last'.resp = AuthenticationError("USE_GOOGLE_LOGIN")
                     /\ ~last'.tokens
                     /\ NoOtpGenerated
             /\ \A otp \in Codes :
                  (/\ last'.op \in VerifyOps
                   /\ verifyOTP(email, otp) \/ verifySigninOTP(email, otp))
                  => ~last'.tokens
     /\ \A g \in GoogleTokens :
          (/\ UserOf(g.email) # NoUser
           /\ UserOf(g.email).authProvider = "email"
           /\ last'.op = "google-login"
           /\ googleLogin(g))
          => /\ last'.resp = AuthenticationError("USE_EMAIL_LOGIN")
             /\ ~last'.tokens
             /\ users' = users]_vars

\* a google-mode record exists and the last request, a signin for it, was
\* rejected with USE_GOOGLE_LOGIN
C1_Witness ==
  /\ last.op = "signin"
  /\ users[last.email] # NoUser
  /\ users[last.email].authProvider = "google"
  /\ Failure(last.resp) = "USE_GOOGLE_LOGIN"

\* C2: an OTP is single-use: no generated OTP is the code of more than one
\* successful verification, in any interleaving of the requests.
C2_SingleUse == otpReplays = {}

\* C3: after verify-otp (verify-signin-otp) has succeeded with a code, a
\* second call of the same endpoint with the same email and code is
\* rejected with OTP_ALREADY_USED.
C3_SecondCallAlreadyUsed ==
  [][\A email \in InputEmails, otp \in Codes :
       /\ (/\ last.op = "verify-otp"
           /\ last.email = toLowerCase(email)
           /\ last.otp = otp
           /\ last.tokens
           /\ verifyOTP(email, otp))
          => Failure(last'.resp) = "OTP_ALREADY_USED"
       /\ (/\ last.op = "verify-signin-otp"
           /\ last.email = toLowerCase(email)
           /\ last.otp = otp
           /\ last.tokens
           /\ verifySigninOTP(email, otp))
          => Failure(last'.resp) = "OTP_ALREADY_USED"]_vars

\* C4: once a new OTP has been generated for a user, a verification with a
\* previously issued, different code fails with INVALID_OTP or OTP_EXPIRED
\* and issues no tokens.
C4_OldCodeInvalid ==
  [][\A email \in InputEmails, otp \in Codes :
       (/\ UserOf(email) # NoUser
        /\ otp \in oldCodes[toLowerCase(email)]
        /\ otp # UserOf(email).otp.code
        /\ last'.op \in VerifyOps
        /\ Verification(email, otp))
       => /\ Failure(last'.resp) \in {"INVALID_OTP", "OTP_EXPIRED"}
          /\ ~last'.tokens]_vars

\* the last request verified an overwritten code against a record that
\* stores a newer, unexpired one and was rejected with INVALID_OTP
C4_Witness ==
  /\ last.op \in VerifyOps
  /\ users[last.email] # NoUser
  /\ last.otp \in oldCodes[last.email]
  /\ users[last.email].otp.code \notin {NullCode, last.otp}
  /\ Failure(last.resp) = "INVALID_OTP"

\* C5: a verification made later than the stored OTP's expiresAt fails
\* with OTP_EXPIRED and issues no tokens, whatever code is submitted.
C5_ExpiredRejected ==
  [][\A email \in InputEmails, otp \in Codes :
       (/\ UserOf(email) # NoUser
        /\ UserOf(email).otp.expiresAt # NullDate
        /\ now > UserOf(email).otp.expiresAt
        /\ last'.op \in VerifyOps
        /\ Verification(email, otp))
       => /\ Failure(last'.resp) = "OTP_EXPIRED"
          /\ ~last'.tokens]_vars

\* the last request submitted the stored code after its expiresAt and was
\* rejected with OTP_EXPIRED
C5_Witness ==
  /\ last.op \in VerifyOps
  /\ users[last.email] # NoUser
  /\ users[last.email].otp.code = last.otp
  /\ users[last.email].otp.expiresAt # NullDate
  /\ now > users[last.email].otp.expiresAt
  /\ Failure(last.resp) = "OTP_EXPIRED"

OtpRequestOps == {"signin", "resend-otp"}

InCooldown(u) ==
  /\ u # NoUser
  /\ u.authProvider = "email"
  /\ u.otp.lastAttemptAt # NullDate
  /\ now - u.otp.lastAttemptAt < thirtySecondsInMs

RateLimitedReply ==
  /\ Failure(last'.resp) = "OTP_RATE_LIMITED"
  /\ last'.wait > 0
  /\ NoOtpGenerated

\* C6 as stated: any signin or resend-otp for an email-mode user made less
\* than 30 seconds after the OTP record's lastAttemptAt is rejected with
\* OTP_RATE_LIMITED, a positive number of seconds, and no new OTP.
C6_CooldownAnySignin ==
  [][\A email \in InputEmails, code \in Codes, ok \in BOOLEAN :
       (/\ InCooldown(UserOf(email))
        /\ last'.op \in OtpRequestOps
        /\ signin(email, code, ok) \/ resendOTP(email, code, ok))
       => RateLimitedReply]_vars

\* C6 as amended: within the 30 seconds, resend-otp, and signin for a
\* verified user, are rejected with OTP_RATE_LIMITED, a positive number
\* of seconds and no new OTP; signin for an unverified user is rejected
\* with EMAIL_NOT_VERIFIED, also without a new OTP.
C6_CooldownShared ==
  [][\A email \in InputEmails, code \in Codes, ok \in BOOLEAN :
       (InCooldown(UserOf(email)) /\ now' = now)
       => /\ (last'.op = "resend-otp" /\ resendOTP(email, code, ok))
             => RateLimitedReply
          /\ (/\ last'.op = "signin"
              /\ UserOf(email).isEmailVerified
              /\ signin(email, code, ok))
             => RateLimitedReply
          /\ (/\ last'.op = "signin"
              /\ ~UserOf(email).isEmailVerified
              /\ signin(email, code, ok))
             => /\ last'.resp = AuthenticationError("EMAIL_NOT_VERIFIED")
                /\ NoOtpGenerated]_vars

\* the last request, a signin for a verified user inside the cooldown of a
\* stored OTP, was rejected with OTP_RATE_LIMITED and a positive wait
C6_Witness ==
  /\ last.op = "signin"
  /\ InCooldown(users[last.email])
  /\ users[last.email].isEmailVerified
  /\ users[last.email].otp.code # NullCode
  /\ Failure(last.resp) = "OTP_RATE_LIMITED"
  /\ last.wait > 0

\* C7: notes are isolated per owner.  For a note owned by another user,
\* getNote, updateNote, deleteNote, togglePin and toggleArchive fail with
\* NOTE_NOT_FOUND and leave the notes unchanged, and getNotes and
\* searchNotes do not return it.
C7_NotesIsolated ==
  [][\A uid \in UserIds, id \in NoteIds :
       (notes[id] # NoNote /\ notes[id].userId # uid /\ last'.caller = uid)
       => /\ (/\ last'.id = id
              /\ \/ getNote(uid, id)
                 \/ \E body \in UpdateBodies : updateNote(uid, id, body)
                 \/ deleteNote(uid, id)
                 \/ togglePin(uid, id)
                 \/ toggleArchive(uid, id))
             => /\ last'.resp = NotFoundError("NOTE_NOT_FOUND")
                /\ notes' = notes
          /\ (/\ last'.op \in {"getNotes", "searchNotes"}
              /\ \/ \E query \in Queries : getNotes(uid, query)
                 \/ \E query \in SearchQueries : searchNotes(uid, query))
             => id \notin Range(last'.notes)]_vars

\* the last request, an updateNote on another user's existing note, was
\* rejected with NOTE_NOT_FOUND
C7_Witness ==
  /\ last.op = "updateNote"
  /\ notes[last.id] # NoNote
  /\ notes[last.id].userId # last.caller
  /\ Failure(last.resp) = "NOTE_NOT_FOUND"

\* C8: in every reachable state of every note, isArchived implies that
\* isPinned is false.
C8_ArchivedNotPinned ==
  \A id \in NoteIds :
    (notes[id] # NoNote /\ notes[id].isArchived) => ~notes[id].isPinned

\* C9: toggleArchive by the owner on a pinned, unarchived note leaves it
\* archived and unpinned, with title, content, tags and owner unchanged.
C9_ArchiveUnpins ==
  [][\A uid \in UserIds, id \in NoteIds :
       (/\ findOwned(id, uid) # NoNote
        /\ notes[id].isPinned
        /\ ~notes[id].isArchived
        /\ last'.op = "toggleArchive"
        /\ toggleArchive(uid, id))
       => notes' = [notes EXCEPT ![id] = [notes[id] EXCEPT
                                            !.isArchived = TRUE,
                                            !.isPinned = FALSE]]]_vars

\* the last request was a toggleArchive that found its note pinned and
\* unarchived, and the note is now archived and unpinned
C9_Witness ==
  /\ last.op = "toggleArchive"
  /\ last.found # NoNote
  /\ last.found.isPinned
  /\ ~last.found.isArchived
  /\ notes[last.id] = [last.found EXCEPT !.isArchived = TRUE,
                                         !.isPinned = FALSE]

\* C10: a user record that exists (it was created and not rolled back)
\* still exists in the next state, with the same identity and auth mode:
\* nothing but signup's rollback removes a record.
C10_RecordsPersist ==
  [][\A e \in Emails :
       users[e] # NoUser
       => /\ users'[e] # NoUser
          /\ users'[e].id = users[e].id
          /\ users'[e].authProvider = users[e].authProvider]_vars

VerifyOtpFailures ==
  {"USER_NOT_FOUND", "EMAIL_ALREADY_VERIFIED", "OTP_EXPIRED",
   "OTP_ALREADY_USED", "INVALID_OTP"}

\* C11: verify-otp on an unverified email-mode record with the stored,
\* unexpired, unused code sets isEmailVerified, clears the OTP sub-record,
\* sets lastLoginAt and issues a token pair; every failing verify-otp is
\* one of USER_NOT_FOUND, EMAIL_ALREADY_VERIFIED, OTP_EXPIRED,
\* OTP_ALREADY_USED and INVALID_OTP, issues no tokens and leaves
\* isEmailVerified as it was.
C11_VerifyOtpContract ==
  [][\A email \in InputEmails, otp \in Codes :
       LET e == toLowerCase(email)
           u == users[e]
       IN
       (last'.op = "verify-otp" /\ verifyOTP(email, otp))
       => /\ (/\ u # NoUser
               /\ u.authProvider = "email"
               /\ ~u.isEmailVerified
               /\ u.otp.code = otp
               /\ now <= u.otp.expiresAt
               /\ ~u.otp.isUsed)
              => /\ last'.resp = Success(200)
                 /\ last'.tokens
                 /\ users'[e].isEmailVerified
                 /\ users'[e].otp = DefaultOtp
                 /\ users'[e].lastLoginAt = now
          /\ last'.resp # Success(200)
              => /\ Failure(last'.resp) \in VerifyOtpFailures
                 /\ ~last'.tokens
                 /\ IF u = NoUser THEN users'[e] = NoUser
                    ELSE users'[e].isEmailVerified = u.isEmailVerified]_vars

\* the last request was a verify-otp that succeeded: the record is verified,
\* its OTP sub-record is cleared and a token pair was issued
C11_Witness ==
  /\ last.op = "verify-otp"
  /\ last.resp = Success(200)
  /\ last.tokens
  /\ users[last.email] # NoUser
  /\ users[last.email].isEmailVerified
  /\ users[last.email].otp = DefaultOtp
  /\ users[last.email].lastLoginAt = now

C13_SignupRollback ==
  [][\A email \in InputEmails, code \in Codes :
       LET e == toLowerCase(email) IN
       last'.op = "signup"
       => /\ (users[e] = NoUser /\ signup(email, code, FALSE))
             => /\ users'[e] = NoUser
                /\ last'.resp = AppError(500, "EMAIL_SEND_FAILED")
          /\ \A ok \in BOOLEAN :
               (/\ last.op = "signup"
                /\ last.email = e
                /\ Failure(last.resp) = "EMAIL_SEND_FAILED"
                /\ signup(email, code, ok))
               => last'.resp \in {Success(201),
                                  AppError(500, "EMAIL_SEND_FAILED")}]_vars

\* the last request was a signup whose OTP email failed: no record exists
\* for its email although a record id was consumed
C13_Witness ==
  /\ last.op = "signup"
  /\ Failure(last.resp) = "EMAIL_SEND_FAILED"
  /\ users[last.email] = NoUser
  /\ nextId > 1

\* C14: every record created by google-signup is verified from creation:
\* a google-signup that issues its token pair leaves a verified record.
C14_GoogleSignupVerified ==
  [][\A g \in GoogleTokens :
       (/\ last'.op = "google-signup"
        /\ googleSignup(g)
        /\ last'.tokens)
       => users'[toLowerCase(g.email)].isEmailVerified]_vars

\* C19: every failure response carries the code of the failure in its
\* errorCode field.
C19_ErrorCodeCarried ==
  last.resp.status >= 400 => last.resp.errorCode = Failure(last.resp)

\* what POST /auth/refresh must do with the token it was given, when a
\* token counts as unexpired until `tolerance` seconds after its exp
RefreshStep(tolerance) ==
  (/\ last'.op = "refresh"
   /\ now' = now
   /\ users' = users
   /\ loggedOut' = loggedOut
   /\ last' # last \/ issued' # issued \/ cookies' # cookies)
  => LET tk == last'.token
         verifies == /\ tk.kind = "refresh"
                     /\ now \div MsPerSecond < tk.exp + tolerance
         owners == {e \in Emails : users[e] # NoUser
                                     /\ users[e].id = tk.userId}
         active == \A e \in owners :
                     users[e].authProvider = "email"
                       => users[e].isEmailVerified
     IN IF verifies /\ owners # {} /\ active
        THEN /\ last'.resp = Success(200)
             /\ last'.tokens
             /\ cookies'.accessToken =
                  Token("access", tk.userId, now \div MsPerSecond)
             /\ cookies'.refreshToken =
                  Token("refresh", tk.userId, now \div MsPerSecond)
             /\ issued' = issued \cup {cookies'.accessToken,
                                        cookies'.refreshToken}
        ELSE /\ ~last'.tokens
             /\ UNCHANGED <<issued, cookies>>
             /\ last'.resp.status = 401
             /\ last'.resp.errorCode =
                  IF ~verifies THEN "INVALID_REFRESH_TOKEN"
                  ELSE IF owners = {} THEN "USER_NOT_FOUND"
                  ELSE "EMAIL_NOT_VERIFIED"

\* C15 as stated: refresh issues a new token pair exactly when the refresh
\* token carries the refresh signature and the time is before its exp, its
\* user exists and is verified if email-mode; otherwise nothing is issued
\* and the failure is INVALID_REFRESH_TOKEN, USER_NOT_FOUND or
\* EMAIL_NOT_VERIFIED in that order.
C15_RefreshUntilExpiry == [][RefreshStep(0)]_vars

\* C15 amended: the same contract, with the token accepted until
\* clockTolerance (60) seconds after its exp.
C15_RefreshContract == [][RefreshStep(clockTolerance)]_vars

\* a refresh that issued a pair for a token whose exp had passed
C15_Witness ==
  /\ last.op = "refresh"
  /\ last.resp = Success(200)
  /\ now \div MsPerSecond >= last.token.exp
  /\ cookies.refreshToken.iat = now \div MsPerSecond

\* C16: logout has no failure mode and is idempotent: a logout that follows
\* a successful logout, presenting the cookies the first one cleared,
\* succeeds as well and leaves the cookies cleared.
C16_LogoutTwice ==
  [][(/\ last.op = "logout"
      /\ last.resp = Success(200)
      /\ cookies = NoCookies
      /\ last'.op = "logout"
      /\ last'.token = cookies.accessToken)
     => last'.resp = Success(200) /\ cookies' = NoCookies]_vars

\* C17: logout revokes nothing: a request that presents a token of a
\* logged-out session where that kind of token is read (an access token to
\* authenticateToken, a refresh token to refresh), before the token's exp
\* and while its user exists and is verified, is not refused.
C17_LogoutRevokesNothing ==
  [][(/\ last'.op \in {"notes", "logout", "refresh"}
      /\ now' = now
      /\ users' = users
      /\ last'.token \in loggedOut
      /\ last'.token.kind = IF last'.op = "refresh" THEN "refresh"
                            ELSE "access"
      /\ now \div MsPerSecond < last'.token.exp
      /\ \E e \in Emails : /\ users[e] # NoUser
                           /\ users[e].id = last'.token.userId
                           /\ users[e].isEmailVerified)
     => last'.resp = Success(200)]_vars

\* the refresh token of a logged-out session has bought a new pair
C17_Witness ==
  /\ last.op = "refresh"
  /\ last.resp = Success(200)
  /\ last.token \in loggedOut
  /\ cookies.refreshToken \notin loggedOut

\* C18: a notes handler runs only for a request whose access token verifies
\* and whose user exists with isEmailVerified = TRUE at that time, and it
\* runs as that user; every other request to /notes is answered 401 (no
\* token, a token that does not verify, an unknown user) or 403
\* EMAIL_NOT_VERIFIED (an unverified user) and leaves the notes as they were.
C18_NotesGate ==
  [][(/\ last'.op \in {"notes", "createNote", "getNotes"}
      /\ now' = now
      /\ users' = users)
     => LET tk == presented'
            verifies == /\ tk.kind = "access"
                        /\ now \div MsPerSecond < tk.exp + clockTolerance
            owners == IF verifies
                      THEN {e \in Emails : /\ users[e] # NoUser
                                           /\ users[e].id = tk.userId}
                      ELSE {}
            verified == \E e \in owners : users[e].isEmailVerified
        IN IF verifies /\ owners # {} /\ verified
           THEN /\ last'.op \in {"createNote", "getNotes"}
                /\ last'.caller = tk.userId
           ELSE /\ last'.op = "notes"
                /\ UNCHANGED <<notes, nextNote>>
                /\ last'.resp.status = IF verifies /\ owners # {} THEN 403
                                       ELSE 401
                /\ (verifies /\ owners # {})
                     => last'.resp.errorCode = "EMAIL_NOT_VERIFIED"]_vars

\* a request with a verifying access token of an unverified user was
\* answered 403 while a note existed
C18_Witness ==
  /\ last.op = "notes"
  /\ last.resp = AppError(403, "EMAIL_NOT_VERIFIED")
  /\ presented.kind = "access"
  /\ \E n \in NoteIds : notes[n] # NoNote

\* an email-mode record has no Google id; a google-mode record has one, and
\* no other record has the same
AuthModesWellFormed(us) ==
  \A e \in Emails :
    us[e] # NoUser =>
      /\ us[e].authProvider \in {"email", "google"}
      /\ us[e].authProvider = "email" => us[e].googleId = NullId
      /\ us[e].authProvider = "google" =>
           /\ us[e].googleId # NullId
           /\ \A x \in Emails \ {e} :
                us[x] # NoUser => us[x].googleId # us[e].googleId

\* C20: the auth mode of a record never changes after creation, and in
\* every reachable state an email-mode record has no Google id while every
\* google-mode record has a Google id that no other record shares.
C20_AuthMode ==
  [][/\ AuthModesWellFormed(users')
     /\ \A e \in Emails :
          (users[e] # NoUser /\ users'[e] # NoUser
             /\ users'[e].id = users[e].id)
          => users'[e].authProvider = users[e].authProvider]_vars

\* two google-mode records, and a google-signup for one of the addresses
\* just refused
C20_Witness ==
  /\ \A e \in Emails : users[e] # NoUser /\ users[e].authProvider = "google"
  /\ last.op = "google-signup"
  /\ last.resp.status = 409

\* C21: every verify-otp or verify-signin-otp that reaches the OTP check,
\* whether it succeeds or fails as expired, already used or mismatch, leaves
\* the stored attempts one higher than before and lastAttemptAt at the time
\* of the attempt.
C21_AttemptCounted ==
  [][(/\ last'.op \in VerifyOps
      /\ now' = now
      /\ Failure(last'.resp) \in {None, "OTP_EXPIRED", "OTP_ALREADY_USED",
                                  "INVALID_OTP"}
      /\ users[last'.email] # NoUser
      /\ users'[last'.email] # NoUser
      /\ users'[last'.email] # users[last'.email])
     => /\ users'[last'.email].otp.attempts =
             users[last'.email].otp.attempts + 1
        /\ users'[last'.email].otp.lastAttemptAt = now]_vars

C23_SlidingWindow ==
  /\ \A i \in 1..Len(passed) :
       Cardinality({j \in 1..Len(passed) :
                      /\ passed[j].key = passed[i].key
                      /\ passed[j].time >= passed[i].time
                      /\ passed[j].time < passed[i].time + windowMs})
         <= maxAttempts
  /\ (last.op = "authRateLimit" /\ ~last.next)
       => /\ last.resp = AppError(429, "RATE_LIMIT_EXCEEDED")
          /\ last.retryAfter > 0

\* C24: signin and resend-otp for one user are not serialized: a signin or
\* resend-otp that passed the cooldown on the document it loaded generates
\* an OTP whatever has been written since, and its write replaces the
\* stored OTP fields (the last write wins); a verify-signin-otp that starts
\* after the writes succeeds exactly with the code written last, so an
\* overwritten code no longer verifies.
C24_LastWriteWins ==
  [][\A s \in Slots :
       (reqs[s] # Idle /\ reqs[s].pc = "found" /\ reqs'[s] = Idle)
       => LET e == reqs[s].email
              loaded == reqs[s].doc
          IN
          /\ (/\ reqs[s].op \in {"signin", "resend-otp"}
              /\ loaded # NoUser
              /\ loaded.otp.lastAttemptAt = NullDate)
             => /\ nextGen' = nextGen + 1
                /\ users'[e].otp.gen = nextGen
                /\ users'[e].otp.code \in Codes
                /\ users'[e].otp.expiresAt = now + expiryMinutes * MsPerMinute
                /\ users'[e].otp.lastAttemptAt = now
                /\ users'[e].otp.attempts = 0
                /\ ~users'[e].otp.isUsed
                /\ users[e].otp.code # NullCode
                     => users[e].otp.code \in oldCodes'[e]
          /\ (/\ reqs[s].op = "verify-signin-otp"
              /\ loaded = users[e]
              /\ loaded.otp.code # NullCode)
             => (last'.resp = Success(200)) <=> (reqs[s].otp = users[e].otp.code)
    ]_vars

\* a signin and a resend-otp have both generated a code at the same
\* instant, the first code was overwritten, and a verify-signin-otp that
\* loaded the record afterwards has succeeded with the code written last
C24_Witness ==
  /\ oldCodes[RaceEmail] # {}
  /\ nextGen = 4
  /\ \A s \in Slots : reqs[s] = Idle
  /\ last.op = "verify-signin-otp"
  /\ last.resp = Success(200)
  /\ last.otp \notin oldCodes[RaceEmail]
  /\ otpWins = {1, 3}

\* C25: verification is monotonic whatever the auth mode: no step takes a
\* record that has isEmailVerified = TRUE to the same record with
\* isEmailVerified = FALSE.
C25_VerifiedStays ==
  [][\A e \in Emails :
       (/\ users[e] # NoUser
        /\ users[e].isEmailVerified
        /\ users'[e] # NoUser
        /\ users'[e].id = users[e].id)
       => users'[e].isEmailVerified]_vars

\* C26: a token pair is issued for an email-mode user only by a successful
\* verify-otp, a successful verify-signin-otp or a refresh, and only when
\* the user's record then has isEmailVerified = TRUE; signup, signin,
\* resend-otp and check-user issue no token.
C26_TokensOnlyVerified ==
  [][(/\ now' = now
      /\ last' # last \/ issued' # issued \/ cookies' # cookies
           \/ users' = users)
     => /\ (issued' # issued \/ cookies' # cookies) => last'.tokens
        /\ last'.op \in {"signup", "signin", "resend-otp", "check-user"}
             => ~last'.tokens /\ UNCHANGED <<issued, cookies>>
        /\ last'.tokens
             => \E e \in Emails :
                  /\ users'[e] # NoUser
                  /\ users'[e].id = cookies'.accessToken.userId
                  /\ users'[e].id = cookies'.refreshToken.userId
                  /\ users'[e].authProvider = "email"
                       => /\ users'[e].isEmailVerified
                          /\ last'.op \in {"verify-otp", "verify-signin-otp",
                                           "refresh"}]_vars

\* a verify-signin-otp has issued a pair to a verified email-mode user
C26_Witness ==
  /\ last.op = "verify-signin-otp"
  /\ last.tokens
  /\ cookies.accessToken \in issued
  /\ \E e \in Emails : /\ users[e] # NoUser
                       /\ users[e].id = cookies.accessToken.userId
                       /\ users[e].authProvider = "email"
                       /\ users[e].isEmailVerified

\* C27: a signin or resend-otp that fails, for whatever reason
\* (USER_NOT_FOUND, wrong provider, EMAIL_NOT_VERIFIED, OTP_RATE_LIMITED,
\* EMAIL_SEND_FAILED), leaves the stored OTP sub-record of the user as it
\* was.
C27_FailureKeepsOtp ==
  [][(/\ last'.op \in {"signin", "resend-otp"}
      /\ last'.resp.status >= 400
      /\ now' = now
      /\ users[last'.email] # NoUser
      /\ users'[last'.email] # NoUser)
     => users'[last'.email].otp = users[last'.email].otp]_vars

\* this step is the second of two successive successful calls of the
\* toggle op on note id by the same user; last.found is then the note as
\* it was before the first call
SecondToggle(op, id) ==
  /\ last.op = op
  /\ last.resp = Success(200)
  /\ last.id = id
  /\ last'.op = op
  /\ last'.resp = Success(200)
  /\ last'.id = id
  /\ last'.caller = last.caller
  /\ last'.found = notes[id]

\* C28 as stated: togglePin applied twice restores isPinned, and
\* toggleArchive applied twice restores both isArchived and isPinned to the
\* values they had before the first call.
C28_TogglesInvolutive ==
  [][\A id \in NoteIds :
       /\ SecondToggle("togglePin", id)
            => notes'[id] = last.found
       /\ SecondToggle("toggleArchive", id)
            => notes'[id] = last.found]_vars

\* C28 amended: togglePin applied twice restores the note; toggleArchive
\* applied twice restores isArchived and every other field but isPinned,
\* which ends FALSE whatever it was.
C28_TogglesTwice ==
  [][\A id \in NoteIds :
       /\ SecondToggle("togglePin", id)
            => notes'[id] = last.found
       /\ SecondToggle("toggleArchive", id)
            => notes'[id] = [last.found EXCEPT !.isPinned = FALSE]]_vars

\* a toggleArchive has just un-archived a note that was archived and
\* unpinned, as toggleArchive leaves it, and the note is still unpinned
C28_Witness ==
  /\ last.op = "toggleArchive"
  /\ last.resp = Success(200)
  /\ last.found.isArchived
  /\ ~last.found.isPinned
  /\ ~notes[last.id].isArchived
  /\ ~notes[last.id].isPinned

\* C29: emails are unique in every interleaving of concurrent signup and
\* google-signup requests: no step gives an address that has a record a
\* record with another id (which, in a store keyed by address, is what a
\* second record for the address would be), a creation replies 201 only
\* when its own record is the one stored, and of the creations in flight
\* for one address at most one has inserted a record.
C29_EmailsUnique ==
  [][/\ \A e \in Emails :
          (users[e] # NoUser /\ users'[e] # NoUser)
          => users'[e].id = users[e].id
     /\ \A s \in Slots :
          (/\ reqs[s] # Idle
           /\ reqs'[s] = Idle
           /\ reqs[s].op \in {"signup", "google-signup"}
           /\ last'.resp = Success(201))
          => /\ users'[reqs[s].email] # NoUser
             /\ users'[reqs[s].email].id =
                  IF reqs[s].op = "signup" THEN reqs[s].doc.id ELSE nextId
             /\ users[reqs[s].email] \in {NoUser, users'[reqs[s].email]}
     /\ \A s1, s2 \in Slots :
          (/\ s1 # s2
           /\ reqs'[s1] # Idle
           /\ reqs'[s2] # Idle
           /\ reqs'[s1].op = "signup"
           /\ reqs'[s2].op = "signup"
           /\ reqs'[s1].email = reqs'[s2].email)
          => ~(reqs'[s1].pc = "saved" /\ reqs'[s2].pc = "saved")]_vars

\* two creations for one address overlapped and the unique index refused
\* the insert of the second
C29_Witness ==
  /\ last.op \in {"signup", "google-signup"}
  /\ last.resp \in {ConflictError("USER_ALREADY_EXISTS"),
                    AppError(500, "INTERNAL_ERROR")}
  /\ users[last.email] # NoUser
  /\ nextId = 3

====
